---- MODULE Spec2Model ----
(***************************************************************************)
(* Model of sphinx_ext_mystmd: the Visitor dispatch engine and the         *)
(* MySTNodeVisitor tree builder (transform.py), driven by the doctree      *)
(* walk that MySTBuilder.write_doc starts (builder.py).                    *)
(*                                                                         *)
(* An input tree is a preorder sequence of nodes [depth, type, text]; node *)
(* ids are positions in that sequence, 0 stands for None.  Output nodes    *)
(* live in a heap (a sequence of records; an output node's id is its       *)
(* position), so that Python's sharing of dicts and lists between the      *)
(* result stack, a parent's children list and a suspended handler's locals *)
(* is kept.  A build writes one file per slug and reads the files again    *)
(* when it finishes.                                                       *)
(***************************************************************************)
EXTENDS Integers, Sequences, FiniteSets, TLC

VARIABLES
    docname,    \* the docname handed to write_doc
    tree,       \* the doctree handed to write_doc (never mutated)
    walk,       \* the active walkabout() calls: frames [node, rest, saved]
    pc,         \* "walk" | "done" | "failed": where write_doc stands
    raised,     \* the exception that escaped walkabout (kind "" if none)
    visitor,    \* the MySTNodeVisitor instance and the output nodes it built
    rewalked,   \* whether walkabout was called a second time on the instance
    made,       \* history: made[o] = input node whose handler created output o
    log,        \* history: handler events of the current walk
    first,      \* history: the output tree the first walk published
    attrs,      \* the attributes the doctree's nodes have, by name
    heading,    \* the output node write_doc takes the title from (0: None)
    fragment,   \* the output node written as the page's fragment (0: none yet)
    docs,       \* env.found_docs: the docnames written so far in this build
    files,      \* the files content/<slug>.myst.json of outdir, by slug
    bfw,        \* history: what breadth_first_walk yielded to finish, per doc
    call,       \* a call of a function of utils.py: [fn, arg]
    ret         \* what that call returned or raised ("pending" before)

vars == <<docname, tree, walk, pc, raised, visitor, rewalked, made, log, first,
          attrs, heading, fragment, docs, files, bfw, call, ret>>

-----------------------------------------------------------------------------
(* Bounds of the model                                                     *)

MaxNodes == 5
MaxDepth == 3
MaxRows == 2
MaxBodyRows == 1
MaxCells == 2
MaxLen == 3
MaxInline == 4
MaxDocs == 2

-----------------------------------------------------------------------------
(* Sequences and finite maps                                               *)

Last(s) == s[Len(s)]

Front(s) == SubSeq(s, 1, Len(s) - 1)

Min(a, b) == IF a <= b THEN a ELSE b

EmptyMap == [x \in {} |-> 0]

Put(f, k, v) == [x \in (DOMAIN f) \cup {k} |-> IF x = k THEN v ELSE f[x]]

Remove(f, k) == [x \in (DOMAIN f) \ {k} |-> f[x]]

RECURSIVE SortedSeq(_)
SortedSeq(S) ==
    IF S = {} THEN <<>>
    ELSE LET m == CHOOSE x \in S : \A y \in S : x <= y
         IN  <<m>> \o SortedSeq(S \ {m})

-----------------------------------------------------------------------------
(* utils.py: strings are sequences of characters.  A printable ASCII       *)
(* character is a string of length one; every other character is written  *)
(* by name or by code point.                                               *)

(* chr(0xhh) and chr(0xhhhh), hh and hhhh in lower-case hexadecimal.       *)
Chr(hh) == "<0x" \o hh \o ">"

Uni(hhhh) == "<U+" \o hhhh \o ">"

SOH == Chr("01")            \* chr(1), what "\1" is in a non-raw literal
FormFeed == Chr("0c")
Pilcrow == "<pilcrow>"      \* the placeholder of input_to_name
EAcute == "<e-acute>"
LeftQuote == "<left-single-quote>"
RightQuote == "<right-single-quote>"
LeftDoubleQuote == "<left-double-quote>"
RightDoubleQuote == "<right-double-quote>"

(* The white space above 0xff: Unicode's space, line and paragraph         *)
(* separators.                                                             *)
SpaceUni ==
    {"1680", "2000", "2001", "2002", "2003", "2004", "2005", "2006", "2007",
     "2008", "2009", "200a", "2028", "2029", "202f", "205f", "3000"}

(* The printable ASCII characters: chr(32) to chr(95) and chr(97) to       *)
(* chr(126).  The grave accent, chr(96), cannot stand in a string of this  *)
(* language and is written by code point.                                  *)
AsciiLow == " !\"#$%&'()*+,-./0123456789:;<=>?@ABCDEFGHIJKLMNOPQRSTUVWXYZ[\\]^_"

AsciiHigh == "abcdefghijklmnopqrstuvwxyz{|}~"

Ascii ==
    [n \in 32..126 |-> IF n < 96 THEN SubSeq(AsciiLow, n - 31, n - 31)
                       ELSE IF n = 96 THEN Chr("60")
                       ELSE SubSeq(AsciiHigh, n - 96, n - 96)]

(* The code points of the characters that are written as themselves or by  *)
(* name.                                                                   *)
CodePointOf(ascii) ==
    [c \in {ascii[n] : n \in 32..126} |-> CHOOSE n \in 32..126 : ascii[n] = c]
    @@ ("\t" :> 9) @@ ("\n" :> 10) @@ ("\r" :> 13)
    @@ (Pilcrow :> 182) @@ (EAcute :> 233)
    @@ (LeftQuote :> 8216) @@ (RightQuote :> 8217)
    @@ (LeftDoubleQuote :> 8220) @@ (RightDoubleQuote :> 8221)

CodePoint == CodePointOf(Ascii)

HexDigits == "0123456789abcdef"

(* int(d, 16) of one digit, in either case                                 *)
HexDigit ==
    [d \in {SubSeq(HexDigits, k, k) : k \in 1..16} |->
        (CHOOSE k \in 1..16 : SubSeq(HexDigits, k, k) = d) - 1]
    @@ ("A" :> 10) @@ ("B" :> 11) @@ ("C" :> 12) @@ ("D" :> 13) @@ ("E" :> 14)
    @@ ("F" :> 15)

RECURSIVE HexValue(_)
(* int(h, 16)                                                              *)
HexValue(h) ==
    IF h = "" THEN 0
    ELSE 16 * HexValue(SubSeq(h, 1, Len(h) - 1)) + HexDigit[SubSeq(h, Len(h), Len(h))]

RECURSIVE Hex(_, _)
(* "%0*x" % (width, n)                                                     *)
Hex(n, width) ==
    IF n = 0 /\ width <= 0 THEN ""
    ELSE Hex(n \div 16, width - 1) \o SubSeq(HexDigits, (n % 16) + 1, (n % 16) + 1)

(* c is spelled by code point: "<0xhh>" or "<U+hhhh>", four to six digits. *)
Coded(c) ==
    /\ Len(c) > 4
    /\ SubSeq(c, Len(c), Len(c)) = ">"
    /\ \/ Len(c) = 6 /\ SubSeq(c, 1, 3) = "<0x"
       \/ Len(c) \in 8..10 /\ SubSeq(c, 1, 3) = "<U+"
    /\ \A i \in 4..(Len(c) - 1) : SubSeq(c, i, i) \in DOMAIN HexDigit

OrdIn(c, known) ==
    IF c \in DOMAIN known THEN known[c]
    ELSE IF Coded(c) THEN HexValue(SubSeq(c, 4, Len(c) - 1))
    ELSE -1

(* ord(c); -1 for a character that is spelled in no way this module knows, *)
(* which is then taken to be printable and to have no case.                *)
ord(c) == OrdIn(c, CodePoint)

ChrIn(n, known) ==
    IF \E c \in DOMAIN known : known[c] = n
    THEN CHOOSE c \in DOMAIN known : known[c] = n
    ELSE IF n < 256 THEN Chr(Hex(n, 2))
    ELSE Uni(Hex(n, 4))

(* chr(n), in the spelling this module uses for the character.             *)
chr(n) == ChrIn(n, CodePoint)

(* The case mapping of str.lower() (CPython 3.11, Unicode 14.0), one row   *)
(* "lo hi step to" in hexadecimal for the code points lo, lo + step, ..., *)
(* hi: the lower case of lo is `to`, that of n is n + (to - lo).           *)
LowerText ==
    "000041 00005a 1 000061 0000c0 0000d6 1 0000e0 0000d8 0000de 1 0000f8 000100 00012e 2 000101 000132 000136 2 000133 000139 000147 2 00013a 00014a 000176 2 00014b 000178 000178 1 0000ff 000179 00017d 2 00017a 000181 000181 1 000253 000182 000184 2 000183 000186 000186 1 000254 000187 000187 1 000188 000189 00018a 1 000256 00018b 00018b 1 00018c 00018e 00018e 1 0001dd 00018f 00018f 1 000259 000190 000190 1 00025b 000191 000191 1 000192 000193 000193 1 000260 000194 000194 1 000263 000196 000196 1 000269 000197 000197 1 000268 000198 000198 1 000199 00019c 00019c 1 00026f 00019d 00019d 1 000272 00019f 00019f 1 000275 0001a0 0001a4 2 0001a1 0001a6 0001a6 1 000280 0001a7 0001a7 1 0001a8 0001a9 0001a9 1 000283 0001ac 0001ac 1 0001ad 0001ae 0001ae 1 000288 0001af 0001af 1 0001b0 0001b1 0001b2 1 00028a 0001b3 0001b5 2 0001b4 0001b7 0001b7 1 000292 0001b8 0001b8 1 0001b9 0001bc 0001bc 1 0001bd 0001c4 0001c4 1 0001c6 0001c5 0001c5 1 0001c6 0001c7 0001c7 1 0001c9 0001c8 0001c8 1 0001c9 0001ca 0001ca 1 0001cc 0001cb 0001db 2 0001cc 0001de 0001ee 2 0001df 0001f1 0001f1 1 0001f3 0001f2 0001f4 2 0001f3 0001f6 0001f6 1 000195 0001f7 0001f7 1 0001bf 0001f8 00021e 2 0001f9 000220 000220 1 00019e 000222 000232 2 000223 00023a 00023a 1 002c65 00023b 00023b 1 00023c 00023d 00023d 1 00019a 00023e 00023e 1 002c66 000241 000241 1 000242 000243 000243 1 000180 000244 000244 1 000289 000245 000245 1 00028c 000246 00024e 2 000247 000370 000372 2 000371 000376 000376 1 000377 00037f 00037f 1 0003f3 000386 000386 1 0003ac 000388 00038a 1 0003ad 00038c 00038c 1 0003cc 00038e 00038f 1 0003cd 000391 0003a1 1 0003b1 0003a3 0003ab 1 0003c3 0003cf 0003cf 1 0003d7 0003d8 0003ee 2 0003d9 0003f4 0003f4 1 0003b8 0003f7 0003f7 1 0003f8 0003f9 0003f9 1 0003f2 0003fa 0003fa 1 0003fb 0003fd 0003ff 1 00037b 000400 00040f 1 000450 000410 00042f 1 000430 000460 000480 2 000461 00048a 0004be 2 00048b 0004c0 0004c0 1 0004cf 0004c1 0004cd 2 0004c2 0004d0 00052e 2 0004d1 000531 000556 1 000561 0010a0 0010c5 1 002d00 0010c7 0010c7 1 002d27 0010cd 0010cd 1 002d2d 0013a0 0013ef 1 00ab70 0013f0 0013f5 1 0013f8 001c90 001cba 1 0010d0 001cbd 001cbf 1 0010fd 001e00 001e94 2 001e01 001e9e 001e9e 1 0000df 001ea0 001efe 2 001ea1 001f08 001f0f 1 001f00 001f18 001f1d 1 001f10 001f28 001f2f 1 001f20 001f38 001f3f 1 001f30 001f48 001f4d 1 001f40 001f59 001f5f 2 001f51 001f68 001f6f 1 001f60 001f88 001f8f 1 001f80 001f98 001f9f 1 001f90 001fa8 001faf 1 001fa0 001fb8 001fb9 1 001fb0 001fba 001fbb 1 001f70 001fbc 001fbc 1 001fb3 001fc8 001fcb 1 001f72 001fcc 001fcc 1 001fc3 001fd8 001fd9 1 001fd0 001fda 001fdb 1 001f76 001fe8 001fe9 1 001fe0 001fea 001feb 1 001f7a 001fec 001fec 1 001fe5 001ff8 001ff9 1 001f78 001ffa 001ffb 1 001f7c 001ffc 001ffc 1 001ff3 002126 002126 1 0003c9 00212a 00212a 1 00006b 00212b 00212b 1 0000e5 002132 002132 1 00214e 002160 00216f 1 002170 002183 002183 1 002184 0024b6 0024cf 1 0024d0 002c00 002c2f 1 002c30 002c60 002c60 1 002c61 002c62 002c62 1 00026b 002c63 002c63 1 001d7d 002c64 002c64 1 00027d 002c67 002c6b 2 002c68 002c6d 002c6d 1 000251 002c6e 002c6e 1 000271 002c6f 002c6f 1 000250 002c70 002c70 1 000252 002c72 002c72 1 002c73 002c75 002c75 1 002c76 002c7e 002c7f 1 00023f 002c80 002ce2 2 002c81 002ceb 002ced 2 002cec 002cf2 002cf2 1 002cf3 00a640 00a66c 2 00a641 00a680 00a69a 2 00a681 00a722 00a72e 2 00a723 00a732 00a76e 2 00a733 00a779 00a77b 2 00a77a 00a77d 00a77d 1 001d79 00a77e 00a786 2 00a77f 00a78b 00a78b 1 00a78c 00a78d 00a78d 1 000265 00a790 00a792 2 00a791 00a796 00a7a8 2 00a797 00a7aa 00a7aa 1 000266 00a7ab 00a7ab 1 00025c 00a7ac 00a7ac 1 000261 00a7ad 00a7ad 1 00026c 00a7ae 00a7ae 1 00026a 00a7b0 00a7b0 1 00029e 00a7b1 00a7b1 1 000287 00a7b2 00a7b2 1 00029d 00a7b3 00a7b3 1 00ab53 00a7b4 00a7c2 2 00a7b5 00a7c4 00a7c4 1 00a794 00a7c5 00a7c5 1 000282 00a7c6 00a7c6 1 001d8e 00a7c7 00a7c9 2 00a7c8 00a7d0 00a7d0 1 00a7d1 00a7d6 00a7d8 2 00a7d7 00a7f5 00a7f5 1 00a7f6 00ff21 00ff3a 1 00ff41 010400 010427 1 010428 0104b0 0104d3 1 0104d8 010570 01057a 1 010597 01057c 01058a 1 0105a3 01058c 010592 1 0105b3 010594 010595 1 0105bb 010c80 010cb2 1 010cc0 0118a0 0118bf 1 0118c0 016e40 016e5f 1 016e60 01e900 01e921 1 01e922 "

(* The code points str.lower() skips when it looks for the letters around  *)
(* a capital sigma (Unicode's Case_Ignorable), in rows "lo hi".            *)
CaseIgnorableText ==
    "000027 000027 00002e 00002e 00003a 00003a 00005e 00005e 000060 000060 0000a8 0000a8 0000ad 0000ad 0000af 0000af 0000b4 0000b4 0000b7 0000b8 0002b0 00036f 000374 000375 00037a 00037a 000384 000385 000387 000387 000483 000489 000559 000559 00055f 00055f 000591 0005bd 0005bf 0005bf 0005c1 0005c2 0005c4 0005c5 0005c7 0005c7 0005f4 0005f4 000600 000605 000610 00061a 00061c 00061c 000640 000640 00064b 00065f 000670 000670 0006d6 0006dd 0006df 0006e8 0006ea 0006ed 00070f 00070f 000711 000711 000730 00074a 0007a6 0007b0 0007eb 0007f5 0007fa 0007fa 0007fd 0007fd 000816 00082d 000859 00085b 000888 000888 000890 000891 000898 00089f 0008c9 000902 00093a 00093a 00093c 00093c 000941 000948 00094d 00094d 000951 000957 000962 000963 000971 000971 000981 000981 0009bc 0009bc 0009c1 0009c4 0009cd 0009cd 0009e2 0009e3 0009fe 0009fe 000a01 000a02 000a3c 000a3c 000a41 000a42 000a47 000a48 000a4b 000a4d 000a51 000a51 000a70 000a71 000a75 000a75 000a81 000a82 000abc 000abc 000ac1 000ac5 000ac7 000ac8 000acd 000acd 000ae2 000ae3 000afa 000aff 000b01 000b01 000b3c 000b3c 000b3f 000b3f 000b41 000b44 000b4d 000b4d 000b55 000b56 000b62 000b63 000b82 000b82 000bc0 000bc0 000bcd 000bcd 000c00 000c00 000c04 000c04 000c3c 000c3c 000c3e 000c40 000c46 000c48 000c4a 000c4d 000c55 000c56 000c62 000c63 000c81 000c81 000cbc 000cbc 000cbf 000cbf 000cc6 000cc6 000ccc 000ccd 000ce2 000ce3 000d00 000d01 000d3b 000d3c 000d41 000d44 000d4d 000d4d 000d62 000d63 000d81 000d81 000dca 000dca 000dd2 000dd4 000dd6 000dd6 000e31 000e31 000e34 000e3a 000e46 000e4e 000eb1 000eb1 000eb4 000ebc 000ec6 000ec6 000ec8 000ecd 000f18 000f19 000f35 000f35 000f37 000f37 000f39 000f39 000f71 000f7e 000f80 000f84 000f86 000f87 000f8d 000f97 000f99 000fbc 000fc6 000fc6 00102d 001030 001032 001037 001039 00103a 00103d 00103e 001058 001059 00105e 001060 001071 001074 001082 001082 001085 001086 00108d 00108d 00109d 00109d 0010fc 0010fc 00135d 00135f 001712 001714 001732 001733 001752 001753 001772 001773 0017b4 0017b5 0017b7 0017bd 0017c6 0017c6 0017c9 0017d3 0017d7 0017d7 0017dd 0017dd 00180b 00180f 001843 001843 001885 001886 0018a9 0018a9 001920 001922 001927 001928 001932 001932 001939 00193b 001a17 001a18 001a1b 001a1b 001a56 001a56 001a58 001a5e 001a60 001a60 001a62 001a62 001a65 001a6c 001a73 001a7c 001a7f 001a7f 001aa7 001aa7 001ab0 001ace 001b00 001b03 001b34 001b34 001b36 001b3a 001b3c 001b3c 001b42 001b42 001b6b 001b73 001b80 001b81 001ba2 001ba5 001ba8 001ba9 001bab 001bad 001be6 001be6 001be8 001be9 001bed 001bed 001bef 001bf1 001c2c 001c33 001c36 001c37 001c78 001c7d 001cd0 001cd2 001cd4 001ce0 001ce2 001ce8 001ced 001ced 001cf4 001cf4 001cf8 001cf9 001d2c 001d6a 001d78 001d78 001d9b 001dff 001fbd 001fbd 001fbf 001fc1 001fcd 001fcf 001fdd 001fdf 001fed 001fef 001ffd 001ffe 00200b 00200f 002018 002019 002024 002024 002027 002027 00202a 00202e 002060 002064 002066 00206f 002071 002071 00207f 00207f 002090 00209c 0020d0 0020f0 002c7c 002c7d 002cef 002cf1 002d6f 002d6f 002d7f 002d7f 002de0 002dff 002e2f 002e2f 003005 003005 00302a 00302d 003031 003035 00303b 00303b 003099 00309e 0030fc 0030fe 00a015 00a015 00a4f8 00a4fd 00a60c 00a60c 00a66f 00a672 00a674 00a67d 00a67f 00a67f 00a69c 00a69f 00a6f0 00a6f1 00a700 00a721 00a770 00a770 00a788 00a78a 00a7f2 00a7f4 00a7f8 00a7f9 00a802 00a802 00a806 00a806 00a80b 00a80b 00a825 00a826 00a82c 00a82c 00a8c4 00a8c5 00a8e0 00a8f1 00a8ff 00a8ff 00a926 00a92d 00a947 00a951 00a980 00a982 00a9b3 00a9b3 00a9b6 00a9b9 00a9bc 00a9bd 00a9cf 00a9cf 00a9e5 00a9e6 00aa29 00aa2e 00aa31 00aa32 00aa35 00aa36 00aa43 00aa43 00aa4c 00aa4c 00aa70 00aa70 00aa7c 00aa7c 00aab0 00aab0 00aab2 00aab4 00aab7 00aab8 00aabe 00aabf 00aac1 00aac1 00aadd 00aadd 00aaec 00aaed 00aaf3 00aaf4 00aaf6 00aaf6 00ab5b 00ab5f 00ab69 00ab6b 00abe5 00abe5 00abe8 00abe8 00abed 00abed 00fb1e 00fb1e 00fbb2 00fbc2 00fe00 00fe0f 00fe13 00fe13 00fe20 00fe2f 00fe52 00fe52 00fe55 00fe55 00feff 00feff 00ff07 00ff07 00ff0e 00ff0e 00ff1a 00ff1a 00ff3e 00ff3e 00ff40 00ff40 00ff70 00ff70 00ff9e 00ff9f 00ffe3 00ffe3 00fff9 00fffb 0101fd 0101fd 0102e0 0102e0 010376 01037a 010780 010785 010787 0107b0 0107b2 0107ba 010a01 010a03 010a05 010a06 010a0c 010a0f 010a38 010a3a 010a3f 010a3f 010ae5 010ae6 010d24 010d27 010eab 010eac 010f46 010f50 010f82 010f85 011001 011001 011038 011046 011070 011070 011073 011074 01107f 011081 0110b3 0110b6 0110b9 0110ba 0110bd 0110bd 0110c2 0110c2 0110cd 0110cd 011100 011102 011127 01112b 01112d 011134 011173 011173 011180 011181 0111b6 0111be 0111c9 0111cc 0111cf 0111cf 01122f 011231 011234 011234 011236 011237 01123e 01123e 0112df 0112df 0112e3 0112ea 011300 011301 01133b 01133c 011340 011340 011366 01136c 011370 011374 011438 01143f 011442 011444 011446 011446 01145e 01145e 0114b3 0114b8 0114ba 0114ba 0114bf 0114c0 0114c2 0114c3 0115b2 0115b5 0115bc 0115bd 0115bf 0115c0 0115dc 0115dd 011633 01163a 01163d 01163d 01163f 011640 0116ab 0116ab 0116ad 0116ad 0116b0 0116b5 0116b7 0116b7 01171d 01171f 011722 011725 011727 01172b 01182f 011837 011839 01183a 01193b 01193c 01193e 01193e 011943 011943 0119d4 0119d7 0119da 0119db 0119e0 0119e0 011a01 011a0a 011a33 011a38 011a3b 011a3e 011a47 011a47 011a51 011a56 011a59 011a5b 011a8a 011a96 011a98 011a99 011c30 011c36 011c38 011c3d 011c3f 011c3f 011c92 011ca7 011caa 011cb0 011cb2 011cb3 011cb5 011cb6 011d31 011d36 011d3a 011d3a 011d3c 011d3d 011d3f 011d45 011d47 011d47 011d90 011d91 011d95 011d95 011d97 011d97 011ef3 011ef4 013430 013438 016af0 016af4 016b30 016b36 016b40 016b43 016f4f 016f4f 016f8f 016f9f 016fe0 016fe1 016fe3 016fe4 01aff0 01aff3 01aff5 01affb 01affd 01affe 01bc9d 01bc9e 01bca0 01bca3 01cf00 01cf2d 01cf30 01cf46 01d167 01d169 01d173 01d182 01d185 01d18b 01d1aa 01d1ad 01d242 01d244 01da00 01da36 01da3b 01da6c 01da75 01da75 01da84 01da84 01da9b 01da9f 01daa1 01daaf 01e000 01e006 01e008 01e018 01e01b 01e021 01e023 01e024 01e026 01e02a 01e130 01e13d 01e2ae 01e2ae 01e2ec 01e2ef 01e8d0 01e8d6 01e944 01e94b 01f3fb 01f3ff 0e0001 0e0001 0e0020 0e007f 0e0100 0e01ef "

(* The cased code points that are not case-ignorable, in rows "lo hi".    *)
CasedText ==
    "000041 00005a 000061 00007a 0000aa 0000aa 0000b5 0000b5 0000ba 0000ba 0000c0 0000d6 0000d8 0000f6 0000f8 0001ba 0001bc 0001bf 0001c4 000293 000295 0002af 000370 000373 000376 000377 00037b 00037d 00037f 00037f 000386 000386 000388 00038a 00038c 00038c 00038e 0003a1 0003a3 0003f5 0003f7 000481 00048a 00052f 000531 000556 000560 000588 0010a0 0010c5 0010c7 0010c7 0010cd 0010cd 0010d0 0010fa 0010fd 0010ff 0013a0 0013f5 0013f8 0013fd 001c80 001c88 001c90 001cba 001cbd 001cbf 001d00 001d2b 001d6b 001d77 001d79 001d9a 001e00 001f15 001f18 001f1d 001f20 001f45 001f48 001f4d 001f50 001f57 001f59 001f59 001f5b 001f5b 001f5d 001f5d 001f5f 001f7d 001f80 001fb4 001fb6 001fbc 001fbe 001fbe 001fc2 001fc4 001fc6 001fcc 001fd0 001fd3 001fd6 001fdb 001fe0 001fec 001ff2 001ff4 001ff6 001ffc 002102 002102 002107 002107 00210a 002113 002115 002115 002119 00211d 002124 002124 002126 002126 002128 002128 00212a 00212d 00212f 002134 002139 002139 00213c 00213f 002145 002149 00214e 00214e 002160 00217f 002183 002184 0024b6 0024e9 002c00 002c7b 002c7e 002ce4 002ceb 002cee 002cf2 002cf3 002d00 002d25 002d27 002d27 002d2d 002d2d 00a640 00a66d 00a680 00a69b 00a722 00a76f 00a771 00a787 00a78b 00a78e 00a790 00a7ca 00a7d0 00a7d1 00a7d3 00a7d3 00a7d5 00a7d9 00a7f5 00a7f6 00a7fa 00a7fa 00ab30 00ab5a 00ab60 00ab68 00ab70 00abbf 00fb00 00fb06 00fb13 00fb17 00ff21 00ff3a 00ff41 00ff5a 010400 01044f 0104b0 0104d3 0104d8 0104fb 010570 01057a 01057c 01058a 01058c 010592 010594 010595 010597 0105a1 0105a3 0105b1 0105b3 0105b9 0105bb 0105bc 010c80 010cb2 010cc0 010cf2 0118a0 0118df 016e40 016e7f 01d400 01d454 01d456 01d49c 01d49e 01d49f 01d4a2 01d4a2 01d4a5 01d4a6 01d4a9 01d4ac 01d4ae 01d4b9 01d4bb 01d4bb 01d4bd 01d4c3 01d4c5 01d505 01d507 01d50a 01d50d 01d514 01d516 01d51c 01d51e 01d539 01d53b 01d53e 01d540 01d544 01d546 01d546 01d54a 01d550 01d552 01d6a5 01d6a8 01d6c0 01d6c2 01d6da 01d6dc 01d6fa 01d6fc 01d714 01d716 01d734 01d736 01d74e 01d750 01d76e 01d770 01d788 01d78a 01d7a8 01d7aa 01d7c2 01d7c4 01d7cb 01df00 01df09 01df0b 01df1e 01e900 01e943 01f130 01f149 01f150 01f169 01f170 01f189 "

(* The code points str.isprintable() rejects, in rows "lo hi".            *)
NonPrintableText ==
    "000000 00001f 00007f 0000a0 0000ad 0000ad 000378 000379 000380 000383 00038b 00038b 00038d 00038d 0003a2 0003a2 000530 000530 000557 000558 00058b 00058c 000590 000590 0005c8 0005cf 0005eb 0005ee 0005f5 000605 00061c 00061c 0006dd 0006dd 00070e 00070f 00074b 00074c 0007b2 0007bf 0007fb 0007fc 00082e 00082f 00083f 00083f 00085c 00085d 00085f 00085f 00086b 00086f 00088f 000897 0008e2 0008e2 000984 000984 00098d 00098e 000991 000992 0009a9 0009a9 0009b1 0009b1 0009b3 0009b5 0009ba 0009bb 0009c5 0009c6 0009c9 0009ca 0009cf 0009d6 0009d8 0009db 0009de 0009de 0009e4 0009e5 0009ff 000a00 000a04 000a04 000a0b 000a0e 000a11 000a12 000a29 000a29 000a31 000a31 000a34 000a34 000a37 000a37 000a3a 000a3b 000a3d 000a3d 000a43 000a46 000a49 000a4a 000a4e 000a50 000a52 000a58 000a5d 000a5d 000a5f 000a65 000a77 000a80 000a84 000a84 000a8e 000a8e 000a92 000a92 000aa9 000aa9 000ab1 000ab1 000ab4 000ab4 000aba 000abb 000ac6 000ac6 000aca 000aca 000ace 000acf 000ad1 000adf 000ae4 000ae5 000af2 000af8 000b00 000b00 000b04 000b04 000b0d 000b0e 000b11 000b12 000b29 000b29 000b31 000b31 000b34 000b34 000b3a 000b3b 000b45 000b46 000b49 000b4a 000b4e 000b54 000b58 000b5b 000b5e 000b5e 000b64 000b65 000b78 000b81 000b84 000b84 000b8b 000b8d 000b91 000b91 000b96 000b98 000b9b 000b9b 000b9d 000b9d 000ba0 000ba2 000ba5 000ba7 000bab 000bad 000bba 000bbd 000bc3 000bc5 000bc9 000bc9 000bce 000bcf 000bd1 000bd6 000bd8 000be5 000bfb 000bff 000c0d 000c0d 000c11 000c11 000c29 000c29 000c3a 000c3b 000c45 000c45 000c49 000c49 000c4e 000c54 000c57 000c57 000c5b 000c5c 000c5e 000c5f 000c64 000c65 000c70 000c76 000c8d 000c8d 000c91 000c91 000ca9 000ca9 000cb4 000cb4 000cba 000cbb 000cc5 000cc5 000cc9 000cc9 000cce 000cd4 000cd7 000cdc 000cdf 000cdf 000ce4 000ce5 000cf0 000cf0 000cf3 000cff 000d0d 000d0d 000d11 000d11 000d45 000d45 000d49 000d49 000d50 000d53 000d64 000d65 000d80 000d80 000d84 000d84 000d97 000d99 000db2 000db2 000dbc 000dbc 000dbe 000dbf 000dc7 000dc9 000dcb 000dce 000dd5 000dd5 000dd7 000dd7 000de0 000de5 000df0 000df1 000df5 000e00 000e3b 000e3e 000e5c 000e80 000e83 000e83 000e85 000e85 000e8b 000e8b 000ea4 000ea4 000ea6 000ea6 000ebe 000ebf 000ec5 000ec5 000ec7 000ec7 000ece 000ecf 000eda 000edb 000ee0 000eff 000f48 000f48 000f6d 000f70 000f98 000f98 000fbd 000fbd 000fcd 000fcd 000fdb 000fff 0010c6 0010c6 0010c8 0010cc 0010ce 0010cf 001249 001249 00124e 00124f 001257 001257 001259 001259 00125e 00125f 001289 001289 00128e 00128f 0012b1 0012b1 0012b6 0012b7 0012bf 0012bf 0012c1 0012c1 0012c6 0012c7 0012d7 0012d7 001311 001311 001316 001317 00135b 00135c 00137d 00137f 00139a 00139f 0013f6 0013f7 0013fe 0013ff 001680 001680 00169d 00169f 0016f9 0016ff 001716 00171e 001737 00173f 001754 00175f 00176d 00176d 001771 001771 001774 00177f 0017de 0017df 0017ea 0017ef 0017fa 0017ff 00180e 00180e 00181a 00181f 001879 00187f 0018ab 0018af 0018f6 0018ff 00191f 00191f 00192c 00192f 00193c 00193f 001941 001943 00196e 00196f 001975 00197f 0019ac 0019af 0019ca 0019cf 0019db 0019dd 001a1c 001a1d 001a5f 001a5f 001a7d 001a7e 001a8a 001a8f 001a9a 001a9f 001aae 001aaf 001acf 001aff 001b4d 001b4f 001b7f 001b7f 001bf4 001bfb 001c38 001c3a 001c4a 001c4c 001c89 001c8f 001cbb 001cbc 001cc8 001ccf 001cfb 001cff 001f16 001f17 001f1e 001f1f 001f46 001f47 001f4e 001f4f 001f58 001f58 001f5a 001f5a 001f5c 001f5c 001f5e 001f5e 001f7e 001f7f 001fb5 001fb5 001fc5 001fc5 001fd4 001fd5 001fdc 001fdc 001ff0 001ff1 001ff5 001ff5 001fff 00200f 002028 00202f 00205f 00206f 002072 002073 00208f 00208f 00209d 00209f 0020c1 0020cf 0020f1 0020ff 00218c 00218f 002427 00243f 00244b 00245f 002b74 002b75 002b96 002b96 002cf4 002cf8 002d26 002d26 002d28 002d2c 002d2e 002d2f 002d68 002d6e 002d71 002d7e 002d97 002d9f 002da7 002da7 002daf 002daf 002db7 002db7 002dbf 002dbf 002dc7 002dc7 002dcf 002dcf 002dd7 002dd7 002ddf 002ddf 002e5e 002e7f 002e9a 002e9a 002ef4 002eff 002fd6 002fef 002ffc 003000 003040 003040 003097 003098 003100 003104 003130 003130 00318f 00318f 0031e4 0031ef 00321f 00321f 00a48d 00a48f 00a4c7 00a4cf 00a62c 00a63f 00a6f8 00a6ff 00a7cb 00a7cf 00a7d2 00a7d2 00a7d4 00a7d4 00a7da 00a7f1 00a82d 00a82f 00a83a 00a83f 00a878 00a87f 00a8c6 00a8cd 00a8da 00a8df 00a954 00a95e 00a97d 00a97f 00a9ce 00a9ce 00a9da 00a9dd 00a9ff 00a9ff 00aa37 00aa3f 00aa4e 00aa4f 00aa5a 00aa5b 00aac3 00aada 00aaf7 00ab00 00ab07 00ab08 00ab0f 00ab10 00ab17 00ab1f 00ab27 00ab27 00ab2f 00ab2f 00ab6c 00ab6f 00abee 00abef 00abfa 00abff 00d7a4 00d7af 00d7c7 00d7ca 00d7fc 00f8ff 00fa6e 00fa6f 00fada 00faff 00fb07 00fb12 00fb18 00fb1c 00fb37 00fb37 00fb3d 00fb3d 00fb3f 00fb3f 00fb42 00fb42 00fb45 00fb45 00fbc3 00fbd2 00fd90 00fd91 00fdc8 00fdce 00fdd0 00fdef 00fe1a 00fe1f 00fe53 00fe53 00fe67 00fe67 00fe6c 00fe6f 00fe75 00fe75 00fefd 00ff00 00ffbf 00ffc1 00ffc8 00ffc9 00ffd0 00ffd1 00ffd8 00ffd9 00ffdd 00ffdf 00ffe7 00ffe7 00ffef 00fffb 00fffe 00ffff 01000c 01000c 010027 010027 01003b 01003b 01003e 01003e 01004e 01004f 01005e 01007f 0100fb 0100ff 010103 010106 010134 010136 01018f 01018f 01019d 01019f 0101a1 0101cf 0101fe 01027f 01029d 01029f 0102d1 0102df 0102fc 0102ff 010324 01032c 01034b 01034f 01037b 01037f 01039e 01039e 0103c4 0103c7 0103d6 0103ff 01049e 01049f 0104aa 0104af 0104d4 0104d7 0104fc 0104ff 010528 01052f 010564 01056e 01057b 01057b 01058b 01058b 010593 010593 010596 010596 0105a2 0105a2 0105b2 0105b2 0105ba 0105ba 0105bd 0105ff 010737 01073f 010756 01075f 010768 01077f 010786 010786 0107b1 0107b1 0107bb 0107ff 010806 010807 010809 010809 010836 010836 010839 01083b 01083d 01083e 010856 010856 01089f 0108a6 0108b0 0108df 0108f3 0108f3 0108f6 0108fa 01091c 01091e 01093a 01093e 010940 01097f 0109b8 0109bb 0109d0 0109d1 010a04 010a04 010a07 010a0b 010a14 010a14 010a18 010a18 010a36 010a37 010a3b 010a3e 010a49 010a4f 010a59 010a5f 010aa0 010abf 010ae7 010aea 010af7 010aff 010b36 010b38 010b56 010b57 010b73 010b77 010b92 010b98 010b9d 010ba8 010bb0 010bff 010c49 010c7f 010cb3 010cbf 010cf3 010cf9 010d28 010d2f 010d3a 010e5f 010e7f 010e7f 010eaa 010eaa 010eae 010eaf 010eb2 010eff 010f28 010f2f 010f5a 010f6f 010f8a 010faf 010fcc 010fdf 010ff7 010fff 01104e 011051 011076 01107e 0110bd 0110bd 0110c3 0110cf 0110e9 0110ef 0110fa 0110ff 011135 011135 011148 01114f 011177 01117f 0111e0 0111e0 0111f5 0111ff 011212 011212 01123f 01127f 011287 011287 011289 011289 01128e 01128e 01129e 01129e 0112aa 0112af 0112eb 0112ef 0112fa 0112ff 011304 011304 01130d 01130e 011311 011312 011329 011329 011331 011331 011334 011334 01133a 01133a 011345 011346 011349 01134a 01134e 01134f 011351 011356 011358 01135c 011364 011365 01136d 01136f 011375 0113ff 01145c 01145c 011462 01147f 0114c8 0114cf 0114da 01157f 0115b6 0115b7 0115de 0115ff 011645 01164f 01165a 01165f 01166d 01167f 0116ba 0116bf 0116ca 0116ff 01171b 01171c 01172c 01172f 011747 0117ff 01183c 01189f 0118f3 0118fe 011907 011908 01190a 01190b 011914 011914 011917 011917 011936 011936 011939 01193a 011947 01194f 01195a 01199f 0119a8 0119a9 0119d8 0119d9 0119e5 0119ff 011a48 011a4f 011aa3 011aaf 011af9 011bff 011c09 011c09 011c37 011c37 011c46 011c4f 011c6d 011c6f 011c90 011c91 011ca8 011ca8 011cb7 011cff 011d07 011d07 011d0a 011d0a 011d37 011d39 011d3b 011d3b 011d3e 011d3e 011d48 011d4f 011d5a 011d5f 011d66 011d66 011d69 011d69 011d8f 011d8f 011d92 011d92 011d99 011d9f 011daa 011edf 011ef9 011faf 011fb1 011fbf 011ff2 011ffe 01239a 0123ff 01246f 01246f 012475 01247f 012544 012f8f 012ff3 012fff 01342f 0143ff 014647 0167ff 016a39 016a3f 016a5f 016a5f 016a6a 016a6d 016abf 016abf 016aca 016acf 016aee 016aef 016af6 016aff 016b46 016b4f 016b5a 016b5a 016b62 016b62 016b78 016b7c 016b90 016e3f 016e9b 016eff 016f4b 016f4e 016f88 016f8e 016fa0 016fdf 016fe5 016fef 016ff2 016fff 0187f8 0187ff 018cd6 018cff 018d09 01afef 01aff4 01aff4 01affc 01affc 01afff 01afff 01b123 01b14f 01b153 01b163 01b168 01b16f 01b2fc 01bbff 01bc6b 01bc6f 01bc7d 01bc7f 01bc89 01bc8f 01bc9a 01bc9b 01bca0 01ceff 01cf2e 01cf2f 01cf47 01cf4f 01cfc4 01cfff 01d0f6 01d0ff 01d127 01d128 01d173 01d17a 01d1eb 01d1ff 01d246 01d2df 01d2f4 01d2ff 01d357 01d35f 01d379 01d3ff 01d455 01d455 01d49d 01d49d 01d4a0 01d4a1 01d4a3 01d4a4 01d4a7 01d4a8 01d4ad 01d4ad 01d4ba 01d4ba 01d4bc 01d4bc 01d4c4 01d4c4 01d506 01d506 01d50b 01d50c 01d515 01d515 01d51d 01d51d 01d53a 01d53a 01d53f 01d53f 01d545 01d545 01d547 01d549 01d551 01d551 01d6a6 01d6a7 01d7cc 01d7cd 01da8c 01da9a 01daa0 01daa0 01dab0 01deff 01df1f 01dfff 01e007 01e007 01e019 01e01a 01e022 01e022 01e025 01e025 01e02b 01e0ff 01e12d 01e12f 01e13e 01e13f 01e14a 01e14d 01e150 01e28f 01e2af 01e2bf 01e2fa 01e2fe 01e300 01e7df 01e7e7 01e7e7 01e7ec 01e7ec 01e7ef 01e7ef 01e7ff 01e7ff 01e8c5 01e8c6 01e8d7 01e8ff 01e94c 01e94f 01e95a 01e95d 01e960 01ec70 01ecb5 01ed00 01ed3e 01edff 01ee04 01ee04 01ee20 01ee20 01ee23 01ee23 01ee25 01ee26 01ee28 01ee28 01ee33 01ee33 01ee38 01ee38 01ee3a 01ee3a 01ee3c 01ee41 01ee43 01ee46 01ee48 01ee48 01ee4a 01ee4a 01ee4c 01ee4c 01ee50 01ee50 01ee53 01ee53 01ee55 01ee56 01ee58 01ee58 01ee5a 01ee5a 01ee5c 01ee5c 01ee5e 01ee5e 01ee60 01ee60 01ee63 01ee63 01ee65 01ee66 01ee6b 01ee6b 01ee73 01ee73 01ee78 01ee78 01ee7d 01ee7d 01ee7f 01ee7f 01ee8a 01ee8a 01ee9c 01eea0 01eea4 01eea4 01eeaa 01eeaa 01eebc 01eeef 01eef2 01efff 01f02c 01f02f 01f094 01f09f 01f0af 01f0b0 01f0c0 01f0c0 01f0d0 01f0d0 01f0f6 01f0ff 01f1ae 01f1e5 01f203 01f20f 01f23c 01f23f 01f249 01f24f 01f252 01f25f 01f266 01f2ff 01f6d8 01f6dc 01f6ed 01f6ef 01f6fd 01f6ff 01f774 01f77f 01f7d9 01f7df 01f7ec 01f7ef 01f7f1 01f7ff 01f80c 01f80f 01f848 01f84f 01f85a 01f85f 01f888 01f88f 01f8ae 01f8af 01f8b2 01f8ff 01fa54 01fa5f 01fa6e 01fa6f 01fa75 01fa77 01fa7d 01fa7f 01fa87 01fa8f 01faad 01faaf 01fabb 01fabf 01fac6 01facf 01fada 01fadf 01fae8 01faef 01faf7 01faff 01fb93 01fb93 01fbcb 01fbef 01fbfa 01ffff 02a6e0 02a6ff 02b739 02b73f 02b81e 02b81f 02cea2 02ceaf 02ebe1 02f7ff 02fa1e 02ffff 03134b 0e00ff 0e01f0 10ffff "

(* The rows "lo hi" of a table as pairs <<lo, hi>>.                        *)
Ranges(text) ==
    {<<HexValue(SubSeq(text, 14 * i + 1, 14 * i + 6)),
       HexValue(SubSeq(text, 14 * i + 8, 14 * i + 13))>> :
        i \in 0..((Len(text) \div 14) - 1)}

CaseIgnorable == Ranges(CaseIgnorableText)

Cased == Ranges(CasedText)

NonPrintable == Ranges(NonPrintableText)

(* The rows "lo hi step to" of a table as <<lo, hi, step, to>>.            *)
Rows(text) ==
    {<<HexValue(SubSeq(text, 23 * i + 1, 23 * i + 6)),
       HexValue(SubSeq(text, 23 * i + 8, 23 * i + 13)),
       HexValue(SubSeq(text, 23 * i + 15, 23 * i + 15)),
       HexValue(SubSeq(text, 23 * i + 17, 23 * i + 22))>> :
        i \in 0..((Len(text) \div 23) - 1)}

LowerRanges == Rows(LowerText)

(* n lies in one of the ranges <<lo, hi>> of R.                            *)
InRanges(n, R) == \E r \in R : r[1] <= n /\ n <= r[2]

PrintableCode(n) == n \in 32..126 \/ ~InRanges(n, NonPrintable)

(* str.isprintable() of one character; every ASCII character from " " to   *)
(* "~" is printable.                                                       *)
isprintable(c) == PrintableCode(ord(c))

UpperCase ==
    <<"A", "B", "C", "D", "E", "F", "G", "H", "I", "J", "K", "L", "M",
      "N", "O", "P", "Q", "R", "S", "T", "U", "V", "W", "X", "Y", "Z">>

LowerCase ==
    <<"a", "b", "c", "d", "e", "f", "g", "h", "i", "j", "k", "l", "m",
      "n", "o", "p", "q", "r", "s", "t", "u", "v", "w", "x", "y", "z">>

Letters == {LowerCase[i] : i \in DOMAIN LowerCase}

Digits == {"0", "1", "2", "3", "4", "5", "6", "7", "8", "9"}

(* [a-z0-9-]                                                               *)
IdChars == Letters \cup Digits \cup {"-"}

(* [\t\n\r ]                                                               *)
Blanks == {"\t", "\n", "\r", " "}

(* What str.strip() takes away: the characters str.isspace() accepts.      *)
Whitespace ==
    Blanks \cup {Chr(hh) : hh \in {"0b", "0c", "1c", "1d", "1e", "1f", "85", "a0"}}
           \cup {Uni(hhhh) : hhhh \in SpaceUni}

(* ['‘’"“”]                                                                *)
Quotes == {"'", LeftQuote, RightQuote, "\"", LeftDoubleQuote, RightDoubleQuote}

LowerIn(n, hit) ==
    IF hit = {} THEN n ELSE LET r == CHOOSE r \in hit : TRUE IN n + r[4] - r[1]

(* The lower case of the code point n outside any context; in ASCII, the   *)
(* first row of the table, the letters A to Z.                             *)
LowerOf(n) ==
    IF n \in 0..127 THEN (IF n \in 65..90 THEN n + 32 ELSE n)
    ELSE LowerIn(n, {r \in LowerRanges :
                        r[1] <= n /\ n <= r[2] /\ (n - r[1]) % r[3] = 0})

FinalSigmaIn(s, before, after) ==
    /\ before # {}
    /\ InRanges(ord(s[CHOOSE j \in before : \A k \in before : k <= j]), Cased)
    /\ after # {}
         => ~InRanges(ord(s[CHOOSE j \in after : \A k \in after : j <= k]), Cased)

FinalSigmaAmong(s, i, solid) ==
    FinalSigmaIn(s, {j \in solid : j < i}, {j \in solid : j > i})

(* Unicode's Final_Sigma, as CPython tests it for the capital sigma s[i]:  *)
(* the nearest character before it that is not case-ignorable is cased,    *)
(* and the nearest one after it, if any, is not.                           *)
FinalSigma(s, i) ==
    FinalSigmaAmong(s, i, {j \in DOMAIN s : ~InRanges(ord(s[j]), CaseIgnorable)})

(* The lower case of s[i], the character with code point n, m the lower    *)
(* case of n: the capital I with a dot above becomes two characters, the   *)
(* capital sigma the final or the small sigma.  A character that does not  *)
(* change keeps its spelling.                                              *)
LowerPiece(s, i, n, m) ==
    IF n = 304 THEN <<"i", Uni("0307")>>
    ELSE IF n = 931 THEN <<IF FinalSigma(s, i) THEN Uni("03c2") ELSE Uni("03c3")>>
    ELSE IF m = n THEN <<s[i]>>
    ELSE <<chr(m)>>

LowerAt(s, i, n) == LowerPiece(s, i, n, LowerOf(n))

RECURSIVE LowerFrom(_, _)
LowerFrom(s, k) ==
    IF k > Len(s) THEN <<>> ELSE LowerAt(s, k, ord(s[k])) \o LowerFrom(s, k + 1)

(* str.lower()                                                             *)
lower(s) == LowerFrom(s, 1)

(* re.sub("[^C]", rep, s) for one character class C                        *)
SubOutside(s, C, rep) == [i \in DOMAIN s |-> IF s[i] \notin C THEN rep ELSE s[i]]

RECURSIVE SubRuns(_, _, _)
(* re.sub("[C]+", rep, s): every maximal run of characters of C becomes rep *)
SubRuns(s, C, rep) ==
    IF s = <<>> THEN <<>>
    ELSE IF Head(s) \notin C THEN <<Head(s)>> \o SubRuns(Tail(s), C, rep)
    ELSE IF Len(s) > 1 /\ s[2] \in C THEN SubRuns(Tail(s), C, rep)
    ELSE rep \o SubRuns(Tail(s), C, rep)

RECURSIVE StripLeft(_, _)
StripLeft(s, C) ==
    IF s # <<>> /\ Head(s) \in C THEN StripLeft(Tail(s), C) ELSE s

RECURSIVE StripRight(_, _)
StripRight(s, C) ==
    IF s # <<>> /\ s[Len(s)] \in C THEN StripRight(SubSeq(s, 1, Len(s) - 1), C) ELSE s

(* str.strip() with C = Whitespace, re.sub("(?:^[C]+)|(?:[C]+$)", "", s)   *)
Strip(s, C) == StripRight(StripLeft(s, C), C)

NoneValue == [kind |-> "None", val |-> <<>>]

Value(v) == [kind |-> "value", val |-> v]

Raised(exc) == [kind |-> "raise", val |-> <<exc>>]

(* re.sub(r"^([0-9-])", "id-\1", s): the replacement is not a raw string,  *)
(* so it is "id-" followed by chr(1), and the matched character is lost.   *)
EnsureLetter(s) ==
    IF s # <<>> /\ Head(s) \in Digits \cup {"-"}
    THEN <<"i", "d", "-", SOH>> \o Tail(s)
    ELSE s

create_html_id(identifier) ==
    IF identifier = <<>> THEN NoneValue
    ELSE Value(Strip(SubRuns(EnsureLetter(SubOutside(lower(identifier), IdChars, "-")),
                             {"-"}, <<"-">>),
                     {"-"}))

(* Mutant of normalize_identifier: the quote characters stay.              *)
normalize_identifier_keeping_quotes(label) ==
    lower(Strip(SubRuns(label, Blanks, <<" ">>), Whitespace))

(* The identifier normalize_label computes: the runs of [\t\n\r ] become   *)
(* one space, the runs of quotes go, str.strip() takes the white space at  *)
(* both ends, str.lower().                                                 *)
normalize_identifier(label) ==
    lower(Strip(SubRuns(SubRuns(label, Blanks, <<" ">>), Quotes, <<>>), Whitespace))

(* normalize_label returns None or the list [identifier, label, html_id].  *)
normalize_label(label) ==
    IF label = <<>> THEN NoneValue
    ELSE Value([identifier |-> normalize_identifier(label),
                label |-> label,
                html_id |-> create_html_id(normalize_identifier(label))])

(* input_to_name(input_, re.compile(r"[a-z0-9-]"), "-")                    *)
input_to_name(input_) ==
    LET escaped == SubOutside(lower(<<Pilcrow>> \o input_), IdChars, Pilcrow)
        unique == SubRuns(escaped, {Pilcrow}, <<Pilcrow>>)
        name == SubRuns(SubRuns(Tail(unique), {Pilcrow}, <<"-">>), {"-"}, <<"-">>)
    IN  IF name = <<>> THEN Raised("IndexError")
        ELSE LET name1 == IF Head(name) = "-" THEN Tail(name) ELSE name
             IN  IF name1 = <<>> THEN Raised("IndexError")
                 ELSE Value(IF Last(name1) = "-" THEN Front(name1) ELSE name1)

(* title.replace("&", ...)                                                 *)
ReplaceAmpersand(title) ==
    IF title = <<>> THEN <<>>
    ELSE LET piece(c) == IF c = "&" THEN <<Pilcrow, "a", "n", "d", Pilcrow>> ELSE <<c>>
             RECURSIVE join(_)
             join(k) == IF k > Len(title) THEN <<>> ELSE piece(title[k]) \o join(k + 1)
         IN  join(1)

SlugLimit == 50

title_to_name(title) ==
    LET r == input_to_name(ReplaceAmpersand(title))
    IN  IF r.kind = "raise" THEN r
        ELSE Value(SubSeq(r.val, 1, Min(Len(r.val), SlugLimit)))

RECURSIVE basename(_)
(* os.path.basename(path): what follows the last "/".                      *)
basename(path) ==
    IF path = <<>> \/ Last(path) = "/" THEN <<>>
    ELSE Append(basename(Front(path)), Last(path))

(* MySTBuilder._slugify                                                    *)
_slugify(path) == title_to_name(basename(path))

RECURSIVE breadth_first_queue(_, _)
(* The while loop of breadth_first_walk: popleft, extend by the children   *)
(* when the node has a "children" key, yield.  Gives what is yielded.      *)
breadth_first_queue(heap, queue) ==
    IF queue = <<>> THEN <<>>
    ELSE LET this == Head(queue)
         IN  <<this>> \o breadth_first_queue(
                            heap,
                            Tail(queue) \o (IF heap[this].hasChildren
                                            THEN heap[this].children ELSE <<>>))

RECURSIVE last_first_queue(_, _)
(* Mutant of breadth_first_walk: the queue is popped at its end.            *)
last_first_queue(heap, queue) ==
    IF queue = <<>> THEN <<>>
    ELSE LET this == queue[Len(queue)]
         IN  <<this>> \o last_first_queue(
                            heap,
                            SubSeq(queue, 1, Len(queue) - 1)
                                \o (IF heap[this].hasChildren
                                    THEN heap[this].children ELSE <<>>))

breadth_first_walk_popping_last(heap, node) == last_first_queue(heap, <<node>>)

breadth_first_walk(heap, node) == breadth_first_queue(heap, <<node>>)

RECURSIVE to_text(_, _)
(* The value of a node that has one, else what its children give, else "". *)
to_text(heap, node) ==
    IF heap[node].hasValue THEN heap[node].value
    ELSE IF ~heap[node].hasChildren THEN ""
    ELSE LET RECURSIVE joined(_)
             joined(k) == IF k > Len(heap[node].children) THEN ""
                          ELSE to_text(heap, heap[node].children[k]) \o joined(k + 1)
         IN  joined(1)

(* Mutant of find_by_type: every node is yielded.                           *)
find_by_type_unfiltered(heap, type_, node) == breadth_first_walk(heap, node)

find_by_type(heap, type_, node) ==
    LET yielded == breadth_first_walk(heap, node)
        Is(o) == heap[o].type = type_
    IN  SelectSeq(yielded, Is)

-----------------------------------------------------------------------------
(* The input tree: docutils nodes in document order                        *)

(* An element of type ty.                                                   *)
Node(d, ty) == [depth |-> d, type |-> ty, text |-> ""]

(* A docutils Text node: a str, the text itself.                            *)
Text(d, text) == [depth |-> d, type |-> "Text", text |-> text]

Parent(t, i) ==
    IF i = 1 THEN 0
    ELSE CHOOSE j \in 1..(i - 1) :
            /\ t[j].depth = t[i].depth - 1
            /\ \A k \in (j + 1)..(i - 1) : t[k].depth >= t[i].depth

SubtreeEnd(t, i) ==
    CHOOSE k \in i..Len(t) :
        /\ \A j \in (i + 1)..k : t[j].depth > t[i].depth
        /\ (k = Len(t) \/ t[k + 1].depth <= t[i].depth)

Children(t, i) ==
    SortedSeq({j \in (i + 1)..SubtreeEnd(t, i) : t[j].depth = t[i].depth + 1})

Descendants(t, i) == (i + 1)..SubtreeEnd(t, i)

LaterSiblings(t, i) ==
    IF i = 1 THEN {}
    ELSE {j \in (i + 1)..Len(t) : Parent(t, j) = Parent(t, i)}

-----------------------------------------------------------------------------
(* Families of input trees                                                 *)

(* Node types a node of type ty may have as children in family fam.        *)
(* "registry": doctrees over node types MySTNodeVisitor has handlers for,  *)
(* plus system_message and pending, docutils node types it has no handler  *)
(* for.                                                                    *)
(* "engine": the control-flow shapes Visitor.dispatch_visit accepts,       *)
(* including the two ways a handler can signal SkipSiblings.               *)
(* "refs": paragraphs of references and text.                              *)
(* "inline": paragraphs with references and doubly wrapped inline nodes,   *)
(* containers and rubrics.                                                 *)
(* "heading": nested sections with titles and subtitles.                   *)
(* "scopes": handlers that open no, one or two output nodes, among them    *)
(* lists, an admonition and a raw node, whose paragraph is made with its   *)
(* text in place.                                                          *)
(* "params": parameter lists of parameters, text, pass-through and skipped *)
(* nodes.                                                                  *)
(* "scripts": paragraphs with subscripts and superscripts, nested and next *)
(* to text and emphasis.                                                   *)
(* "departure": sections, titles and paragraphs of Text nodes that carry   *)
(* the same or different texts.                                            *)
ChildTypes(fam, ty) ==
    IF fam = "registry" THEN
        CASE ty = "document" ->
                {"section", "paragraph", "comment", "literal_block", "field",
                 "system_message"}
          [] ty = "section" -> {"title", "section", "paragraph", "field", "pending"}
          [] ty = "paragraph" -> {"Text", "title"}
          [] ty = "field" -> {"paragraph", "Text"}
          [] ty \in {"title", "comment", "literal_block"} -> {"Text"}
          [] ty = "system_message" -> {"paragraph"}
          [] OTHER -> {}
    ELSE IF fam = "engine" THEN
        CASE ty \in {"document", "paragraph", "field"} ->
                {"paragraph", "field", "comment", "yield_SkipSiblings",
                 "return_SkipSiblings"}
          [] ty \in {"comment", "yield_SkipSiblings", "return_SkipSiblings"} ->
                {"paragraph"}
          [] OTHER -> {}
    ELSE IF fam = "refs" THEN
        CASE ty = "document" -> {"paragraph"}
          [] ty = "paragraph" -> {"reference", "number_reference", "Text"}
          [] ty \in {"reference", "number_reference"} -> {"Text"}
          [] OTHER -> {}
    ELSE IF fam = "inline" THEN
        CASE ty = "document" -> {"paragraph", "container", "rubric"}
          [] ty = "container" -> {"paragraph"}
          [] ty = "paragraph" ->
                {"reference", "literal_emphasis", "literal_strong", "Text"}
          [] ty \in {"reference", "literal_emphasis", "literal_strong", "rubric"} ->
                {"Text"}
          [] OTHER -> {}
    ELSE IF fam = "params" THEN
        CASE ty = "document" -> {"desc_parameterlist"}
          [] ty = "desc_parameterlist" ->
                {"desc_parameter", "field", "colspec", "Text"}
          [] ty = "field" -> {"desc_parameter", "Text"}
          [] ty = "desc_parameter" -> {"Text", "desc_parameterlist"}
          [] OTHER -> {}
    ELSE IF fam = "scripts" THEN
        CASE ty = "document" -> {"paragraph"}
          [] ty = "paragraph" -> {"subscript", "superscript", "emphasis", "Text"}
          [] ty \in {"subscript", "superscript"} ->
                {"subscript", "superscript", "emphasis", "Text"}
          [] ty = "emphasis" -> {"subscript", "Text"}
          [] OTHER -> {}
    ELSE IF fam = "departure" THEN
        CASE ty = "document" -> {"section", "paragraph"}
          [] ty = "section" -> {"title", "paragraph"}
          [] ty \in {"title", "paragraph"} -> {"Text"}
          [] OTHER -> {}
    ELSE IF fam = "scopes" THEN
        CASE ty = "document" ->
                {"paragraph", "field", "colspec", "rubric", "bullet_list", "raw"}
          [] ty = "field" -> {"paragraph", "colspec"}
          [] ty = "paragraph" -> {"literal_emphasis", "literal_strong", "Text"}
          [] ty \in {"literal_emphasis", "literal_strong", "rubric"} -> {"Text"}
          [] ty = "bullet_list" -> {"list_item", "definition_list_item"}
          [] ty \in {"list_item", "definition_list_item"} -> {"paragraph", "note"}
          [] OTHER -> {}
    ELSE
        CASE ty = "document" -> {"section", "subtitle", "title"}
          [] ty = "section" -> {"section", "title", "subtitle", "paragraph"}
          [] OTHER -> {}

(* The type of the node a new node of depth d would hang under.            *)
AncestorType(t, d) ==
    LET j == CHOOSE j \in 1..Len(t) :
                 t[j].depth = d - 1 /\ \A k \in (j + 1)..Len(t) : t[k].depth # d - 1
    IN  t[j].type

(* The texts the Text nodes of a family carry.                              *)
Texts(fam) == IF fam = "departure" THEN {"T", "U"} ELSE {"T"}

Extensions(fam, t) ==
    UNION { { Append(t, IF ty = "Text" THEN Text(d, x) ELSE Node(d, ty)) :
                ty \in ChildTypes(fam, AncestorType(t, d)), x \in Texts(fam) } :
            d \in 1..Min(Last(t).depth + 1, MaxDepth) }

(* tree is t, or a tree of family fam that extends t by further nodes (up   *)
(* to MaxNodes nodes in all).                                              *)
(* The largest doctree of a family.                                        *)
NodeLimit(fam) == IF fam = "inline" THEN MaxInline ELSE MaxNodes

RECURSIVE Grown(_, _)
Grown(fam, t) ==
    \/ tree = t
    \/ /\ Len(t) < NodeLimit(fam)
       /\ \E e \in Extensions(fam, t) : Grown(fam, e)

RECURSIVE Rep(_, _)
Rep(n, s) == IF n = 0 THEN <<>> ELSE s \o Rep(n - 1, s)

Row(d, cells) == <<Node(d, "row")>> \o Rep(cells, <<Node(d + 1, "entry")>>)

(* A document holding one table: an optional title, `pre` body rows, a     *)
(* thead of k rows and `post` body rows of `cells` entries each, the rows  *)
(* either below tgroup/tbody wrappers or straight below the table; with    *)
(* `stray` the thead also holds a paragraph.                               *)
TableTree(cap, wrap, pre, k, post, cells, stray) ==
    LET d == IF wrap THEN 3 ELSE 2
        body(n) == IF n = 0 THEN <<>>
                   ELSE IF wrap THEN <<Node(d, "tbody")>> \o Rep(n, Row(d + 1, cells))
                   ELSE Rep(n, Row(d, cells))
        head == <<Node(d, "thead")>> \o Rep(k, Row(d + 1, cells))
                \o (IF stray THEN <<Node(d + 1, "paragraph")>> ELSE <<>>)
    IN  <<Node(0, "document"), Node(1, "table")>>
        \o (IF cap THEN <<Node(2, "title")>> ELSE <<>>)
        \o (IF wrap THEN <<Node(2, "tgroup"), Node(3, "colspec")>> ELSE <<>>)
        \o body(pre) \o head \o body(post)

TableTrees ==
    { TableTree(cap, wrap, pre, k, post, cells, stray) :
        cap \in BOOLEAN, wrap \in BOOLEAN, pre \in 0..MaxBodyRows, k \in 0..MaxRows,
        post \in 0..MaxBodyRows, cells \in 1..MaxCells, stray \in BOOLEAN }

-----------------------------------------------------------------------------
(* The visitor: Visitor and MySTNodeVisitor state, threaded through the    *)
(* handlers as a record S.  S.exc is the exception in flight (kind "" when *)
(* none): once set, the remaining statements of a handler do not run.      *)

NoExc == [kind |-> "", arg |-> ""]

Ok(S) == S.exc.kind = ""

Raise(S, kind, arg) == [S EXCEPT !.exc = [kind |-> kind, arg |-> arg]]

NewVisitor ==
    [ visited |-> EmptyMap,     \* Visitor._visited
      stack |-> <<>>,           \* Visitor._stack
      heading_depth |-> 0,      \* MySTNodeVisitor._heading_depth
      result |-> 0,             \* MySTNodeVisitor._result (0: None)
      result_stack |-> <<>>,    \* MySTNodeVisitor._result_stack
      heap |-> <<>>,            \* the output nodes (dicts) built so far
      exc |-> NoExc ]

(* An output node: a dict with "type", with "children" when hasChildren,   *)
(* "depth" on headings, "header" once visit_thead has set it, "url" on     *)
(* links, "identifier" and "label" when labelled, "value" on the html,     *)
(* text, code and comment nodes ("" on the others), "kind", "class" and    *)
(* "ordered" on the nodes whose handler sets them ("", NoClass and FALSE   *)
(* on the others).                                                         *)
NoClass == [kind |-> "absent", val |-> ""]

(* "class": a string                                                       *)
ClassName(name) == [kind |-> "str", val |-> name]

(* "class": a list of strings                                              *)
ClassList(names) == [kind |-> "list", val |-> names]

Out(type, hasChildren) ==
    [type |-> type, hasChildren |-> hasChildren, children |-> <<>>,
     depth |-> 0, header |-> FALSE, url |-> <<>>,
     labelled |-> FALSE, identifier |-> <<>>, label |-> <<>>,
     hasValue |-> FALSE, value |-> "",
     kind |-> "", class |-> NoClass, ordered |-> FALSE]

(* {"type": type, "value": value}                                          *)
Literal(type, value) == [Out(type, FALSE) EXCEPT !.hasValue = TRUE, !.value = value]

RECURSIVE Join(_, _)
(* sep.join(parts)                                                         *)
Join(sep, parts) ==
    IF parts = <<>> THEN ""
    ELSE IF Len(parts) = 1 THEN parts[1]
    ELSE parts[1] \o sep \o Join(sep, Tail(parts))

(* docutils serial_escape: backslashes and spaces get a backslash.         *)
serial_escape(value) ==
    Join("", [i \in 1..Len(value) |->
                 IF value[i] = "\\" THEN "\\\\"
                 ELSE IF value[i] = " " THEN "\\ " ELSE value[i]])

(* A character as repr writes it when none of its short escapes applies.  *)
Escaped(c, n) ==
    IF PrintableCode(n) THEN c
    ELSE IF n < 256 THEN "\\x" \o Hex(n, 2)
    ELSE IF n < 65536 THEN "\\u" \o Hex(n, 4)
    ELSE "\\U" \o Hex(n, 8)

(* repr(value) of a str: in double quotes when it holds a single quote and *)
(* no double quote, else in single quotes; a character that is not         *)
(* printable is written by its code point.                                 *)
repr(value) ==
    LET chars == {value[i] : i \in 1..Len(value)}
        q == IF "'" \in chars /\ "\"" \notin chars THEN "\"" ELSE "'"
        esc(c) == IF c = "\\" THEN "\\\\"
                  ELSE IF c = "'" /\ q = "'" THEN "\\'"
                  ELSE IF c = "\t" THEN "\\t"
                  ELSE IF c = "\n" THEN "\\n"
                  ELSE IF c = "\r" THEN "\\r"
                  ELSE Escaped(c, ord(c))
    IN  q \o Join("", [i \in 1..Len(value) |-> esc(value[i])]) \o q

(* node.get(key): None, here as the empty value, when the node has no     *)
(* such attribute.                                                         *)
get(node, key) == IF key \in DOMAIN attrs[node] THEN attrs[node][key] ELSE <<>>

(* Element.attlist(): the attributes the node has, a list attribute only   *)
(* when it is not empty, as (name, value) pairs sorted by name.            *)
attlist(node) ==
    LET a == attrs[node]
        set(k) == k \in DOMAIN a /\ (k \in {"classes", "ids"} => a[k] # <<>>)
    IN  (IF set("classes") THEN <<[name |-> "classes", list |-> TRUE, value |-> a.classes]>> ELSE <<>>)
        \o (IF set("ids") THEN <<[name |-> "ids", list |-> TRUE, value |-> a.ids]>> ELSE <<>>)
        \o (IF set("refid") THEN <<[name |-> "refid", list |-> FALSE, value |-> a.refid]>> ELSE <<>>)
        \o (IF set("refuri") THEN <<[name |-> "refuri", list |-> FALSE, value |-> a.refuri]>> ELSE <<>>)
        \o (IF set("uri") THEN <<[name |-> "uri", list |-> FALSE, value |-> a.uri]>> ELSE <<>>)

(* Element.starttag(): each attribute is written name="value"; a list      *)
(* value is its serial-escaped items joined by blanks.                     *)
starttag(node) ==
    LET list_(v) == Join(" ", [i \in 1..Len(v) |-> serial_escape(v[i])])
        part(p) == p.name \o "=\"" \o (IF p.list THEN list_(p.value) ELSE Join("", p.value)) \o "\""
        al == attlist(node)
    IN  "<" \o Join(" ", <<tree[node].type>> \o [i \in 1..Len(al) |-> part(al[i])]) \o ">"

(* Element.emptytag(): the values are formatted with %s, which writes a    *)
(* list as Python writes it.                                               *)
emptytag(node) ==
    LET list_(v) == "[" \o Join(", ", [i \in 1..Len(v) |-> repr(v[i])]) \o "]"
        part(p) == p.name \o "=\"" \o (IF p.list THEN list_(p.value) ELSE Join("", p.value)) \o "\""
        al == attlist(node)
    IN  "<" \o Join(" ", <<tree[node].type>> \o [i \in 1..Len(al) |-> part(al[i])]) \o "/>"

RECURSIVE str(_)
(* str(node): a Text is its text; an element is its start tag, the str of  *)
(* its children and its end tag, or its empty tag when it has no child.    *)
str(node) ==
    IF tree[node].type = "Text" THEN tree[node].text
    ELSE IF Children(tree, node) = <<>> THEN emptytag(node)
    ELSE starttag(node)
         \o Join("", [i \in 1..Len(Children(tree, node)) |->
                         str(Children(tree, node)[i])])
         \o "</" \o tree[node].type \o ">"

(* str(node.children[0]) if node.children else ""                          *)
first_child_str(node) ==
    IF Children(tree, node) = <<>> THEN "" ELSE str(Children(tree, node)[1])

parent_node(S) == IF S.stack # <<>> THEN Last(S.stack) ELSE 0

parent_result(S) == IF S.result_stack # <<>> THEN Last(S.result_stack) ELSE 0

(* max(ids, key=len): the first of the longest.                            *)
longest_id(ids) ==
    ids[CHOOSE i \in DOMAIN ids :
            /\ \A j \in DOMAIN ids : Len(ids[j]) <= Len(ids[i])
            /\ \A j \in 1..(i - 1) : Len(ids[j]) < Len(ids[i])]

(* identifier, label, _ = normalize_label(longest_id) and the two          *)
(* assignments; unpacking None raises TypeError.                           *)
inherit_label(node, r) ==
    IF r.kind = "None" THEN Raised("TypeError")
    ELSE Value([node EXCEPT !.labelled = TRUE,
                            !.identifier = r.val.identifier,
                            !.label = r.val.label])

(* inherit_node_info(node, docutils_node): the output node (a dict, changed *)
(* in place) with identifier and label set from the longest of the ids, or *)
(* the TypeError (the print of the warning about several ids is no state). *)
(* docutils_node 0 stands for None: the callers then skip the call.        *)
inherit_node_info(node, docutils_node) ==
    IF docutils_node = 0 THEN Value(node)
    ELSE IF attrs[docutils_node].ids = <<>> THEN Value(node)
    ELSE inherit_label(node, normalize_label(longest_id(attrs[docutils_node].ids)))

(* enter_myst_node from the append to the parent to its yield; info is     *)
(* what inherit_node_info made of the node.                                *)
enter_myst_node_open(S, node, info) ==
    LET id == Len(S.heap) + 1
        parent == parent_result(S)
        opened(n) ==
            [S EXCEPT
               !.heap = Append(IF parent = 0 THEN @
                               ELSE [@ EXCEPT ![parent].children = Append(@, id)],
                               n),
               !.result_stack = Append(@, id)]
    IN  IF info.kind = "raise" THEN Raise(opened(node), "TypeError", "NoneType")
        ELSE opened(info.val)

(* enter_myst_node up to its yield: attach to the open parent, then open.  *)
enter_myst_node(S, node, docutils_node) ==
    IF ~Ok(S) THEN S
    ELSE IF parent_result(S) # 0 /\ ~S.heap[parent_result(S)].hasChildren
    THEN Raise(S, "KeyError", "children")
    ELSE enter_myst_node_open(S, node, inherit_node_info(node, docutils_node))

(* Mutant of enter_myst_node_exit: the finally clause does not pop.        *)
enter_myst_node_exit_keeping(S) == S

(* enter_myst_node after its yield: the finally clause.                    *)
enter_myst_node_exit(S) ==
    IF ~Ok(S) THEN S
    ELSE IF S.result_stack = <<>> THEN Raise(S, "IndexError", "pop")
    ELSE [S EXCEPT !.result_stack = Front(@)]

(* push_myst_node from the append to the parent on.                        *)
push_myst_node_append(S, node, info) ==
    LET id == Len(S.heap) + 1
        parent == parent_result(S)
        pushed(n) ==
            [S EXCEPT !.heap = Append([@ EXCEPT ![parent].children = Append(@, id)], n)]
    IN  IF info.kind = "raise" THEN Raise(pushed(node), "TypeError", "NoneType")
        ELSE pushed(info.val)

push_myst_node(S, node, docutils_node) ==
    IF ~Ok(S) THEN S
    ELSE IF parent_result(S) = 0 THEN Raise(S, "TypeError", "NoneType")
    ELSE IF ~S.heap[parent_result(S)].hasChildren THEN Raise(S, "KeyError", "children")
    ELSE push_myst_node_append(S, node, inherit_node_info(node, docutils_node))

(* enter_heading up to its yield; the caller keeps `depth`.                *)
enter_heading(S) ==
    IF ~Ok(S) THEN S ELSE [S EXCEPT !.heading_depth = @ + 1]

(* Mutant of enter_heading_exit: the finally clause does not restore.      *)
enter_heading_exit_keeping(S, depth) == S

(* enter_heading after its yield: the finally clause.                      *)
enter_heading_exit(S, depth) ==
    IF ~Ok(S) THEN S ELSE [S EXCEPT !.heading_depth = depth]

-----------------------------------------------------------------------------
(* Handlers.  visit_X(S, ...) is the handler up to its return or first     *)
(* yield and gives [S, obj, instr]: the state, the object dispatch_visit   *)
(* stores in _visited, and the value dispatch_visit compares with          *)
(* SkipChildren and SkipSiblings.  obj.conv tells how dispatch_departure   *)
(* classifies the object ("ctx": has __enter__, "gen": a generator,        *)
(* "plain": neither); the other fields are the locals a suspended handler  *)
(* keeps for its leave segment.                                            *)

Obj(handler, conv) ==
    [handler |-> handler, conv |-> conv, depth |-> 0, node |-> 0,
     table |-> 0, n_children |-> 0, kept |-> FALSE, children |-> <<>>]

Handled(S, obj, instr) == [S |-> S, obj |-> obj, instr |-> instr]

(* return self.enter_myst_node({...}, docutils_node)                       *)
ReturnScope(S, handler, node, docutils_node) ==
    Handled(enter_myst_node(S, node, docutils_node), Obj(handler, "ctx"), "node")

(* Mutant of visit_field: the wrapper opens an output node of its own.     *)
visit_field_scoped(S, node) ==
    ReturnScope(S, "field", Out("definitionListItem", TRUE), node)

visit_field(S, node) == Handled(S, Obj("field", "plain"), "None")

(* Mutant of visit_comment: the handler yields nothing.                    *)
visit_comment_descending(S, node) ==
    Handled(enter_myst_node(S, Literal("comment", first_child_str(node)), node),
            Obj("comment", "gen"), "None")

visit_comment(S, node) ==
    Handled(enter_myst_node(S, Literal("comment", first_child_str(node)), node),
            Obj("comment", "gen"), "SkipChildren")

visit_literal_block(S, node) ==
    IF Len(Children(tree, node)) = 0
    THEN Handled(Raise(S, "IndexError", "children"), Obj("literal_block", "plain"),
                 "SkipChildren")
    ELSE Handled(push_myst_node(S, Literal("code", first_child_str(node)), node),
                 Obj("literal_block", "plain"), "SkipChildren")

(* Mutant of visit_reference: a reference without target becomes a link to *)
(* nowhere, as visit_footnote_reference makes one.                         *)
visit_reference_lenient(S, node) ==
    IF get(node, "refid") # <<>>
    THEN ReturnScope(S, "reference",
                     [Out("link", TRUE) EXCEPT !.url = <<"#">> \o attrs[node].refid], node)
    ELSE IF get(node, "refuri") # <<>>
    THEN ReturnScope(S, "reference",
                     [Out("link", TRUE) EXCEPT !.url = attrs[node].refuri], node)
    ELSE ReturnScope(S, "reference", [Out("link", TRUE) EXCEPT !.url = <<"#">>], node)

(* A bare `raise` outside an except clause raises RuntimeError.            *)
visit_reference(S, node) ==
    IF get(node, "refid") # <<>>
    THEN ReturnScope(S, "reference",
                     [Out("link", TRUE) EXCEPT !.url = <<"#">> \o attrs[node].refid], node)
    ELSE IF get(node, "refuri") # <<>>
    THEN ReturnScope(S, "reference",
                     [Out("link", TRUE) EXCEPT !.url = attrs[node].refuri], node)
    ELSE Handled(Raise(S, "RuntimeError", "No active exception to reraise"),
                 Obj("reference", "plain"), "None")

visit_number_reference(S, node) == visit_reference(S, node)

(* A handler that yields inside two nested enter_myst_node blocks.         *)
TwoScopes(S, handler, outer, inner, node) ==
    Handled(enter_myst_node(enter_myst_node(S, outer, node), inner, 0),
            Obj(handler, "gen"), "None")

visit_literal_emphasis(S, node) ==
    TwoScopes(S, "literal_emphasis", Out("emphasis", TRUE), Out("inlineCode", TRUE), node)

visit_literal_strong(S, node) ==
    TwoScopes(S, "literal_strong", Out("strong", TRUE), Out("inlineCode", TRUE), node)

(* What enter_myst_node raises leaves the handler before node.children[0]  *)
(* is evaluated; node.children[0] raises IndexError inside both            *)
(* with-blocks, whose finally clauses then close the two output nodes.     *)
visit_rubric(S, node) ==
    LET S2 == enter_myst_node(enter_myst_node(S, Out("paragraph", TRUE), node),
                              Out("strong", TRUE), 0)
    IN  IF ~Ok(S2) THEN Handled(S2, Obj("rubric", "gen"), "SkipChildren")
        ELSE IF Len(Children(tree, node)) = 0
        THEN Handled(Raise(enter_myst_node_exit(enter_myst_node_exit(S2)),
                           "IndexError", "children"),
                     Obj("rubric", "gen"), "SkipChildren")
        ELSE Handled(push_myst_node(S2, Literal("text", first_child_str(node)), 0),
                     Obj("rubric", "gen"), "SkipChildren")

(* The enter segment of visit_subscript: the opening marker is appended to *)
(* the open output node, nothing is opened.                                *)
visit_subscript(S, node) ==
    Handled(push_myst_node(S, Literal("html", "<sub>"), 0), Obj("subscript", "gen"),
            "None")

visit_superscript(S, node) ==
    Handled(push_myst_node(S, Literal("html", "<sup>"), 0), Obj("superscript", "gen"),
            "None")

(* `with self.enter_myst_node(...) as parent: yield`: the handler keeps the *)
(* span it opened.                                                         *)
visit_desc_parameterlist(S, node) ==
    Handled(enter_myst_node(S, [Out("span", TRUE) EXCEPT
                                  !.class = ClassName("sphinx-desc-parameterlist")],
                            node),
            [Obj("desc_parameterlist", "gen") EXCEPT !.node = Len(S.heap) + 1], "None")

(* Mutant of visit_subtitle: the heading gets the depth of a title.        *)
visit_subtitle_flat(S, node) ==
    LET S1 == enter_myst_node(S, [Out("heading", TRUE) EXCEPT !.depth = S.heading_depth],
                              node)
    IN  Handled(enter_heading(S1),
                [Obj("subtitle", "gen") EXCEPT !.depth = S1.heading_depth], "None")

visit_subtitle(S, node) ==
    LET S1 == enter_myst_node(S, [Out("heading", TRUE) EXCEPT
                                    !.depth = S.heading_depth + 1], node)
    IN  Handled(enter_heading(S1),
                [Obj("subtitle", "gen") EXCEPT !.depth = S1.heading_depth], "None")

visit_section(S, node) ==
    LET S1 == enter_myst_node(S, Out("block", TRUE), node)
    IN  Handled(enter_heading(S1),
                [Obj("section", "gen") EXCEPT !.depth = S1.heading_depth], "None")

(* Mutant of visit_document: the result is published on entry.             *)
visit_document_publishing(S, node) ==
    LET S1 == enter_myst_node(S, Out("root", TRUE), node)
    IN  Handled(IF Ok(S1) THEN [S1 EXCEPT !.result = Len(S.heap) + 1] ELSE S1,
                [Obj("document", "gen") EXCEPT !.node = Len(S.heap) + 1], "None")

visit_document(S, node) ==
    LET S1 == enter_myst_node(S, Out("root", TRUE), node)
    IN  Handled(S1, [Obj("document", "gen") EXCEPT !.node = Len(S.heap) + 1], "None")

visit_title(S, node) ==
    LET parent_type == IF parent_node(S) = 0 THEN "NoneType"
                       ELSE tree[parent_node(S)].type
    IN  IF parent_type = "section" THEN
            Handled(enter_myst_node(S, [Out("heading", TRUE) EXCEPT
                                          !.depth = S.heading_depth], node),
                    Obj("title", "gen"), "None")
        ELSE IF parent_type = "table" THEN
            Handled(enter_myst_node(S, Out("caption", TRUE), node), Obj("title", "gen"),
                    "None")
        ELSE IF parent_type = "compact_paragraph" THEN
            Handled(enter_myst_node(S, [Out("span", TRUE) EXCEPT
                                          !.class = ClassName("sphinx-caption-text")],
                                    node),
                    Obj("title", "gen"), "None")
        ELSE IF parent_type \in {"topic", "admonition", "sidebar"} THEN
            Handled(enter_myst_node(S, Out("admonitionTitle", TRUE), 0),
                    Obj("title", "gen"), "None")
        ELSE Handled(Raise(S, "NotImplementedError", parent_type), Obj("title", "gen"),
                     "None")

(* Mutant of visit_thead: the watermark is not taken.                      *)
visit_thead_no_watermark(S, node) ==
    LET table == parent_result(S)
    IN  IF table = 0
        THEN Handled(Raise(S, "TypeError", "NoneType"), Obj("thead", "gen"), "None")
        ELSE IF ~S.heap[table].hasChildren
        THEN Handled(Raise(S, "KeyError", "children"), Obj("thead", "gen"), "None")
        ELSE Handled(S, [Obj("thead", "gen") EXCEPT !.table = table], "None")

visit_thead(S, node) ==
    LET table == parent_result(S)
    IN  IF table = 0
        THEN Handled(Raise(S, "TypeError", "NoneType"), Obj("thead", "gen"), "None")
        ELSE IF ~S.heap[table].hasChildren
        THEN Handled(Raise(S, "KeyError", "children"), Obj("thead", "gen"), "None")
        ELSE Handled(S, [Obj("thead", "gen") EXCEPT
                           !.table = table,
                           !.n_children = Len(S.heap[table].children)], "None")

(* The handlers that only return SkipChildren, return None or return one  *)
(* enter_myst_node(...).                                                   *)

(* enter_myst_node on a dict that is made with descendants in place: the   *)
(* dicts `below` are made first, innermost first.                          *)
enter_prefilled(S, below, node, docutils_node) ==
    IF ~Ok(S) THEN S
    ELSE IF parent_result(S) # 0 /\ ~S.heap[parent_result(S)].hasChildren
    THEN Raise(S, "KeyError", "children")
    ELSE enter_myst_node([S EXCEPT !.heap = @ \o below], node, docutils_node)

(* [{"type": "admonitionTitle", "children": [{"type": "text", "value":     *)
(* "Version Modified"}]}], the dicts k + 1 and k + 2.                      *)
VersionModifiedTitle(k) ==
    <<Literal("text", "Version Modified"),
      [Out("admonitionTitle", TRUE) EXCEPT !.children = <<k + 1>>]>>

(* node.get("classes"): the list a docutils element always carries.        *)
classes(node) == get(node, "classes")

(* The visit_* methods whose body is `return SkipChildren`.                *)
ReturnSkipChildren ==
    {"colspec", "substition_definition", "index", "generated", "classifier",
     "option_list", "line_block", "doctest_block", "autosummary_toc",
     "label", "citation", "legend", "tabular_col_spec",
     "substitution_definition"}

(* The visit_* methods whose body is `return` or `pass`.                   *)
ReturnNone ==
    {"meta", "tgroup", "target", "definition_list_item", "tbody",
     "autosummary_table", "field"}

visit_returning(S, name) ==
    Handled(S, Obj(name, "plain"),
            IF name \in ReturnSkipChildren THEN "SkipChildren" ELSE "None")

(* The visit_* methods whose body is `return self.enter_myst_node({...},   *)
(* node)` or `return self.enter_myst_node({...})`: the dict of each.       *)
EnteredDicts ==
    [container |-> Out("container", TRUE),
     compact_paragraph |-> Out("paragraph", TRUE),
     topic |-> Out("admonition", TRUE),
     problematic |-> [Out("span", TRUE) EXCEPT !.class = ClassName("problematic")],
     math |-> Out("inlineMath", TRUE),
     math_block |-> Out("math", TRUE),
     enumerated_list |-> [Out("list", TRUE) EXCEPT !.ordered = TRUE],
     bullet_list |-> Out("list", TRUE),
     transition |-> Out("thematicBreak", FALSE),
     list_item |-> Out("listItem", TRUE),
     emphasis |-> Out("emphasis", TRUE),
     strong |-> Out("strong", TRUE),
     literal |-> Out("inlineCode", TRUE),
     footnote_reference |-> [Out("link", TRUE) EXCEPT !.url = <<"#">>],
     title_reference |-> [Out("link", TRUE) EXCEPT !.url = <<"#">>],
     sidebar |-> [Out("aside", TRUE) EXCEPT !.kind = "sidebar"],
     paragraph |-> Out("paragraph", TRUE),
     definition_list |-> Out("definitionList", TRUE),
     definition |-> Out("definitionDescription", TRUE),
     term |-> Out("definitionTerm", TRUE),
     table |-> Out("table", TRUE),
     glossary |-> Out("glossary", TRUE),
     row |-> Out("tableRow", TRUE),
     entry |-> Out("tableCell", TRUE),
     footnote |-> Out("footnoteDefinition", TRUE),
     caption |-> [Out("caption", TRUE) EXCEPT !.kind = "figure"],
     figure |-> [Out("container", TRUE) EXCEPT !.kind = "figure"],
     block_quote |-> Out("blockquote", TRUE),
     attribution |-> Out("caption", TRUE),
     admonition |-> Out("admonition", TRUE),
     compound |-> Out("div", TRUE),
     field_list |-> Out("definitionList", TRUE),
     field_name |-> Out("definitionTerm", TRUE),
     field_body |-> Out("definitionDescription", TRUE),
     desc |-> Out("definitionList", TRUE),
     desc_content |-> Out("definitionDescription", TRUE),
     desc_signature |-> Out("definitionTerm", TRUE),
     desc_parameter |-> Out("emphasis", TRUE),
     desc_annotation |-> [Out("emphasis", TRUE) EXCEPT
                            !.class = ClassName("sphinx-desc-annotation")]]

(* visit_container and visit_transition pass no docutils node.             *)
visit_entering(S, name, node) ==
    ReturnScope(S, name, EnteredDicts[name],
                IF name \in {"container", "transition"} THEN 0 ELSE node)

(* The text node carries the text of the docutils node.                    *)
visit_Text(S, node) == ReturnScope(S, "Text", Literal("text", str(node)), 0)

(* The names the loop in the class body binds _visit_span to, each with    *)
(* f"sphinx-{escaped_name}", escaped_name = name.replace("_", "-").        *)
SpanClasses ==
    [desc_addname |-> "sphinx-desc-addname",
     desc_inline |-> "sphinx-desc-inline",
     desc_name |-> "sphinx-desc-name",
     desc_returns |-> "sphinx-desc-returns",
     desc_optional |-> "sphinx-desc-optional",
     desc_sig_element |-> "sphinx-desc-sig-element",
     desc_sig_keyword |-> "sphinx-desc-sig-keyword",
     desc_sig_keyword_type |-> "sphinx-desc-sig-keyword-type",
     desc_sig_literal_char |-> "sphinx-desc-sig-literal-char",
     desc_sig_literal_number |-> "sphinx-desc-sig-literal-number",
     desc_sig_literal_string |-> "sphinx-desc-sig-literal-string",
     desc_sig_name |-> "sphinx-desc-sig-name",
     desc_signature_line |-> "sphinx-desc-signature-line",
     desc_sig_operator |-> "sphinx-desc-sig-operator",
     desc_sig_punctuation |-> "sphinx-desc-sig-punctuation",
     desc_sig_space |-> "sphinx-desc-sig-space",
     desc_type |-> "sphinx-desc-type",
     desc_type_parameter |-> "sphinx-desc-type-parameter"]

(* _visit_span: the span carries the node's class name as its class.       *)
visit_span(S, name, node) ==
    ReturnScope(S, name,
                [Out("span", TRUE) EXCEPT !.class = ClassName(SpanClasses[name])], node)

(* The names of the module's last loop.                                    *)
AdmonitionNames ==
    {"attention", "caution", "danger", "error", "hint", "important", "note",
     "tip", "warning", "seealso"}

(* The function that loop sets as visit_<name>.                            *)
visitor_(S, name, node) ==
    ReturnScope(S, name, [Out("admonition", TRUE) EXCEPT !.kind = name], node)

(* The paragraph is made with its text child in place.                    *)
visit_raw(S, node) ==
    Handled(enter_prefilled(S, <<Literal("text", str(node))>>,
                            [Out("paragraph", TRUE) EXCEPT
                               !.children = <<Len(S.heap) + 1>>], 0),
            Obj("raw", "ctx"), "node")

(* "class": node.get("classes")                                           *)
visit_inline(S, node) ==
    ReturnScope(S, "inline",
                [Out("span", TRUE) EXCEPT !.class = ClassList(classes(node))], node)

(* node["uri"] raises KeyError on an image without uri.                   *)
visit_image(S, node) ==
    IF "uri" \in DOMAIN attrs[node]
    THEN ReturnScope(S, "image",
                     [Out("image", FALSE) EXCEPT !.url = attrs[node].uri], 0)
    ELSE Handled(Raise(S, "KeyError", "uri"), Obj("image", "plain"), "None")

visit_versionmodified(S, node) ==
    Handled(enter_prefilled(S, VersionModifiedTitle(Len(S.heap)),
                            [Out("admonition", TRUE) EXCEPT
                               !.children = <<Len(S.heap) + 2>>], node),
            Obj("versionmodified", "ctx"), "node")

visit_productionlist(S, node) ==
    Handled(enter_prefilled(S, VersionModifiedTitle(Len(S.heap)),
                            [Out("admonition", TRUE) EXCEPT
                               !.children = <<Len(S.heap) + 2>>], node),
            Obj("productionlist", "ctx"), "node")

(* Handlers of a Visitor subclass that signal SkipSiblings: as the first   *)
(* value a two-phase handler yields inside its scope, and as a plain       *)
(* return value.                                                           *)
visit_yield_SkipSiblings(S, node) ==
    Handled(enter_myst_node(S, Out("container", TRUE), node),
            Obj("yield_SkipSiblings", "gen"), "SkipSiblings")

visit_return_SkipSiblings(S, node) ==
    Handled(S, Obj("return_SkipSiblings", "plain"), "SkipSiblings")

(* visit_thead after its yield: tag the cells of the rows appended since.  *)
(* The loop stops at the first new child that is not a tableRow.  The      *)
(* local `children` is the list object table["children"] was at the visit: *)
(* the table's list still, unless that key has been assigned a new list.   *)
visit_thead_resume(S, g) ==
    LET children == IF g.kept THEN g.children ELSE S.heap[g.table].children
        new == SubSeq(children, g.n_children + 1, Len(children))
        bad == {i \in 1..Len(new) : S.heap[new[i]].type # "tableRow"}
        stop == IF bad = {} THEN Len(new) + 1
                ELSE CHOOSE i \in bad : \A j \in bad : i <= j
        cells == UNION { {S.heap[new[i]].children[c] :
                            c \in 1..Len(S.heap[new[i]].children)} :
                         i \in 1..(stop - 1) }
        S1 == [S EXCEPT !.heap = [o \in DOMAIN @ |->
                                    IF o \in cells THEN [@[o] EXCEPT !.header = TRUE]
                                    ELSE @[o]]]
    IN  IF bad = {} THEN S1 ELSE Raise(S1, "AssertionError", "tableRow")

visit_document_resume(S, g) ==
    LET S1 == enter_myst_node_exit(S)
    IN  IF ~Ok(S1) THEN S1 ELSE [S1 EXCEPT !.result = g.node]

visit_section_resume(S, g) ==
    enter_myst_node_exit(enter_heading_exit(S, g.depth))

(* Mutant of visit_subscript_resume: the marker is not closed.              *)
visit_subscript_resume_open(S, g) == S

(* visit_subscript and visit_superscript after their yield.                *)
visit_subscript_resume(S, g) ==
    push_myst_node(S, Literal("html", IF g.handler = "subscript" THEN "</sub>"
                                      ELSE "</sup>"), 0)

RECURSIVE Separated(_, _)
(* [x for p in [(n, {", "}) for n in leading] for x in p], the separator   *)
(* dicts being the output nodes sep, sep + 1, ...                          *)
Separated(leading, sep) ==
    IF leading = <<>> THEN <<>>
    ELSE <<Head(leading), sep>> \o Separated(Tail(leading), sep + 1)

(* Mutant of Parenthesized: the separators are left out.                   *)
Parenthesized_unseparated(kids, new) ==
    <<new>> \o kids \o <<new + Len(kids)>>

(* The list display of visit_desc_parameterlist for children kids # <<>>,  *)
(* its new dicts being the output nodes from new on, in the order the      *)
(* display creates them: "(", the separators, ")".                         *)
Parenthesized(kids, new) ==
    <<new>> \o Separated(Front(kids), new + 1) \o <<Last(kids), new + Len(kids)>>

(* parent["children"] = [...] with the text nodes the display creates.     *)
(* The assignment gives the span a new list object: a suspended visit_thead *)
(* that took the span's list as its local `children` keeps the old one.    *)
Rewritten(S, span, children, texts) ==
    [S EXCEPT !.heap = [@ EXCEPT ![span].children = children] \o texts,
              !.visited = [k \in DOMAIN @ |->
                              IF @[k].handler = "thead" /\ @[k].table = span
                                 /\ ~@[k].kept
                              THEN [@[k] EXCEPT !.kept = TRUE,
                                                !.children = S.heap[span].children]
                              ELSE @[k]]]

(* visit_desc_parameterlist after its yield: the children of the span are  *)
(* put in parentheses and separated by commas, then the span is closed.    *)
visit_desc_parameterlist_resume(S, g) ==
    IF S.heap[g.node].children # <<>>
    THEN enter_myst_node_exit(
             Rewritten(S, g.node,
                       Parenthesized(S.heap[g.node].children, Len(S.heap) + 1),
                       <<Literal("text", "(")>>
                           \o [i \in 1..(Len(S.heap[g.node].children) - 1) |->
                                  Literal("text", ", ")]
                           \o <<Literal("text", ")")>>))
    ELSE enter_myst_node_exit(
             Rewritten(S, g.node, <<Len(S.heap) + 1, Len(S.heap) + 2>>,
                       <<Literal("text", "("), Literal("text", ")")>>))

(* next(gen, None) in dispatch_departure: the handler's leave segment.     *)
Resume(S, g) ==
    CASE g.handler = "document" -> visit_document_resume(S, g)
      [] g.handler = "desc_parameterlist" -> visit_desc_parameterlist_resume(S, g)
      [] g.handler \in {"subscript", "superscript"} -> visit_subscript_resume(S, g)
      [] g.handler \in {"section", "subtitle"} -> visit_section_resume(S, g)
      [] g.handler \in {"literal_emphasis", "literal_strong", "rubric"} ->
            enter_myst_node_exit(enter_myst_node_exit(S))
      [] g.handler = "thead" -> visit_thead_resume(S, g)
      [] g.handler \in {"title", "comment", "yield_SkipSiblings"} ->
            enter_myst_node_exit(S)
      [] OTHER -> S

-----------------------------------------------------------------------------
(* The dispatch engine                                                     *)

(* The node types for which getattr(self, "visit_<type>") finds a method.  *)
Handlers ==
    {"meta", "container", "comment", "raw", "compact_paragraph", "inline",
     "reference", "number_reference", "topic", "problematic", "tgroup",
     "colspec", "math", "math_block", "target", "title", "enumerated_list",
     "substition_definition", "subtitle", "bullet_list", "rubric",
     "transition", "list_item", "emphasis", "strong", "subscript",
     "superscript", "literal", "literal_emphasis", "literal_strong",
     "footnote_reference", "index", "title_reference", "sidebar", "image",
     "paragraph", "Text", "section", "document", "generated", "classifier",
     "definition_list", "definition", "term", "definition_list_item",
     "option_list", "line_block", "doctest_block", "table", "tbody",
     "autosummary_table", "autosummary_toc", "glossary", "row", "entry",
     "footnote", "label", "citation", "legend", "caption", "figure", "thead",
     "tabular_col_spec", "literal_block", "block_quote", "attribution",
     "admonition", "versionmodified", "productionlist",
     "substitution_definition", "compound", "field_list", "field_name",
     "field_body", "desc", "desc_content", "desc_signature",
     "desc_parameterlist", "desc_parameter", "desc_annotation", "field",
     "desc_addname", "desc_inline", "desc_name", "desc_returns",
     "desc_optional", "desc_sig_element", "desc_sig_keyword",
     "desc_sig_keyword_type", "desc_sig_literal_char",
     "desc_sig_literal_number", "desc_sig_literal_string", "desc_sig_name",
     "desc_signature_line", "desc_sig_operator", "desc_sig_punctuation",
     "desc_sig_space", "desc_type", "desc_type_parameter", "attention",
     "caution", "danger", "error", "hint", "important", "note", "tip",
     "warning", "seealso"}

(* impl(node), with a context manager entered and a generator advanced to  *)
(* its first yield.                                                        *)
Impl(S, node) ==
    LET ty == tree[node].type
    IN  CASE ty = "comment" -> visit_comment(S, node)
          [] ty = "raw" -> visit_raw(S, node)
          [] ty = "inline" -> visit_inline(S, node)
          [] ty = "reference" -> visit_reference(S, node)
          [] ty = "number_reference" -> visit_number_reference(S, node)
          [] ty = "title" -> visit_title(S, node)
          [] ty = "subtitle" -> visit_subtitle(S, node)
          [] ty = "rubric" -> visit_rubric(S, node)
          [] ty = "subscript" -> visit_subscript(S, node)
          [] ty = "superscript" -> visit_superscript(S, node)
          [] ty = "literal_emphasis" -> visit_literal_emphasis(S, node)
          [] ty = "literal_strong" -> visit_literal_strong(S, node)
          [] ty = "image" -> visit_image(S, node)
          [] ty = "section" -> visit_section(S, node)
          [] ty = "document" -> visit_document(S, node)
          [] ty = "thead" -> visit_thead(S, node)
          [] ty = "literal_block" -> visit_literal_block(S, node)
          [] ty = "versionmodified" -> visit_versionmodified(S, node)
          [] ty = "productionlist" -> visit_productionlist(S, node)
          [] ty = "desc_parameterlist" -> visit_desc_parameterlist(S, node)
          [] ty = "field" -> visit_field(S, node)
          [] ty = "Text" -> visit_Text(S, node)
          [] ty \in DOMAIN EnteredDicts -> visit_entering(S, ty, node)
          [] ty \in DOMAIN SpanClasses -> visit_span(S, ty, node)
          [] ty \in AdmonitionNames -> visitor_(S, ty, node)
          [] ty \in ReturnSkipChildren \cup ReturnNone -> visit_returning(S, ty)

(* A Visitor subclass with the handlers of MySTNodeVisitor and the two     *)
(* that signal SkipSiblings.                                               *)
SubclassHandlers == Handlers \cup {"yield_SkipSiblings", "return_SkipSiblings"}

SubclassImpl(S, node) ==
    CASE tree[node].type = "yield_SkipSiblings" -> visit_yield_SkipSiblings(S, node)
      [] tree[node].type = "return_SkipSiblings" -> visit_return_SkipSiblings(S, node)
      [] OTHER -> Impl(S, node)

(* A suspended handler object loses its last reference (its _visited entry *)
(* is overwritten): CPython closes the generator at once, which runs the   *)
(* finally clauses of the context managers it is suspended in; what they   *)
(* raise is ignored.                                                       *)
Finalize(S, g) ==
    LET S1 == IF g.conv = "gen" /\ g.handler \in {"section", "subtitle"}
              THEN enter_heading_exit(S, g.depth) ELSE S
        scoped == g.conv = "ctx"
                  \/ (g.conv = "gen"
                      /\ g.handler \notin {"thead", "subscript", "superscript"})
        S2 == IF scoped /\ S1.result_stack # <<>> THEN enter_myst_node_exit(S1) ELSE S1
    IN  IF g.handler \in {"literal_emphasis", "literal_strong", "rubric"}
           /\ S2.result_stack # <<>>
        THEN enter_myst_node_exit(S2) ELSE S2

(* _visited is a WeakKeyDictionary: a key is found by hash and ==.  An     *)
(* element is equal to itself only; a Text is a str, equal to every Text   *)
(* of the same text.                                                       *)
eq(a, b) ==
    \/ a = b
    \/ tree[a].type = "Text" /\ tree[b].type = "Text" /\ tree[a].text = tree[b].text

(* The key of _visited that node finds (0: none).                          *)
visited_key(S, node) ==
    IF \E k \in DOMAIN S.visited : eq(k, node)
    THEN CHOOSE k \in DOMAIN S.visited : eq(k, node)
    ELSE 0

(* self._visited[node] = obj: an equal key keeps its place and gets the    *)
(* new value, and the object it held is finalized.                         *)
visited_setitem(S, node, obj) ==
    IF visited_key(S, node) = 0 THEN [S EXCEPT !.visited = Put(@, node, obj)]
    ELSE Finalize([S EXCEPT !.visited[visited_key(S, node)] = obj],
                  S.visited[visited_key(S, node)])

(* Mutant of dispatch_visit_store: the instruction is stored but not       *)
(* raised.                                                                 *)
dispatch_visit_store_not_raising(S, node, h) ==
    IF ~Ok(h.S) THEN h.S
    ELSE [visited_setitem(h.S, node, h.obj) EXCEPT !.stack = Append(@, node)]

(* Mutant of dispatch_visit: a type without a handler gets a default that  *)
(* does nothing, as docutils' GenericNodeVisitor would give it.            *)
dispatch_visit_defaulting(S, node) ==
    LET h == IF tree[node].type \in Handlers THEN Impl(S, node)
             ELSE Handled(S, Obj("", "plain"), "None")
    IN  IF ~Ok(h.S) THEN h.S
        ELSE LET S2 == [visited_setitem(h.S, node, h.obj) EXCEPT
                          !.stack = Append(@, node)]
             IN  IF h.instr \in {"SkipChildren", "SkipSiblings"}
                 THEN Raise(S2, h.instr, "")
                 ELSE S2

(* dispatch_visit once the handler has returned h: store, finalize a       *)
(* pending entry of an equal node, push, raise the instruction.            *)
dispatch_visit_store(S, node, h) ==
    IF ~Ok(h.S) THEN h.S
    ELSE LET S2 == [visited_setitem(h.S, node, h.obj) EXCEPT
                      !.stack = Append(@, node)]
         IN  IF h.instr \in {"SkipChildren", "SkipSiblings"}
             THEN Raise(S2, h.instr, "")
             ELSE S2

dispatch_visit(S, node) ==
    IF tree[node].type \notin Handlers
    THEN Raise(S, "AttributeError", tree[node].type)
    ELSE dispatch_visit_store(S, node, Impl(S, node))

(* dispatch_visit of the subclass.                                         *)
subclass_dispatch_visit(S, node) ==
    IF tree[node].type \notin SubclassHandlers
    THEN Raise(S, "AttributeError", tree[node].type)
    ELSE dispatch_visit_store(S, node, SubclassImpl(S, node))

(* dispatch_departure once _visited.pop(node) has given g: pop the stack,   *)
(* run the leave segment of g.                                             *)
dispatch_departure_found(S, g) ==
    IF S.stack = <<>> THEN Raise(S, "IndexError", "pop")
    ELSE IF g.conv = "ctx" THEN enter_myst_node_exit([S EXCEPT !.stack = Front(@)])
    ELSE IF g.conv = "gen" THEN Resume([S EXCEPT !.stack = Front(@)], g)
    ELSE [S EXCEPT !.stack = Front(@)]

(* Mutant of dispatch_departure: the KeyError of the lookup is not caught. *)
dispatch_departure_uncaught(S, node) ==
    IF visited_key(S, node) = 0 THEN Raise(S, "KeyError", "node")
    ELSE dispatch_departure_found(
             [S EXCEPT !.visited = Remove(@, visited_key(S, node))],
             S.visited[visited_key(S, node)])

dispatch_departure(S, node) ==
    IF visited_key(S, node) = 0 THEN S
    ELSE dispatch_departure_found(
             [S EXCEPT !.visited = Remove(@, visited_key(S, node))],
             S.visited[visited_key(S, node)])

-----------------------------------------------------------------------------
(* write_doc: doctree.walkabout(visitor).  A frame of `walk` is one active *)
(* walkabout call: its node and the children it has still to walk; the     *)
(* bottom frame (node 0) is write_doc itself, about to walk the root.      *)

(* History kept with a frame: the node stack, the result stack and the     *)
(* heading depth as they were right before the frame's node was entered.   *)
Snapshot(S) ==
    [stack |-> S.stack, result_stack |-> S.result_stack,
     heading_depth |-> S.heading_depth]

Frame(node, rest, saved) == [node |-> node, rest |-> rest, saved |-> saved]

(* A handler event: "visit" (the handler was invoked), "enter" (its enter  *)
(* segment completed and dispatch_visit stored its object, of convention   *)
(* conv, with instruction instr), "depart" (dispatch_departure was called) *)
(* and "leave" (the stored object's leave segment was run).                *)
Event(ev, node, conv, instr) == [ev |-> ev, node |-> node, conv |-> conv, instr |-> instr]

(* The output nodes created between heap sizes a and b belong to `node`.   *)
Credit(m, a, b, node) == m \o [i \in 1..(b - a) |-> node]

RECURSIVE Deep(_, _)
(* The output tree below o as a value: what json.dump would write.         *)
Deep(heap, o) ==
    [type |-> heap[o].type, hasChildren |-> heap[o].hasChildren,
     depth |-> heap[o].depth, header |-> heap[o].header, url |-> heap[o].url,
     labelled |-> heap[o].labelled, identifier |-> heap[o].identifier,
     label |-> heap[o].label, hasValue |-> heap[o].hasValue, value |-> heap[o].value,
     kind |-> heap[o].kind, class |-> heap[o].class, ordered |-> heap[o].ordered,
     children |-> [i \in 1..Len(heap[o].children) |-> Deep(heap, heap[o].children[i])]]

(* A docutils node without ids and with no attribute of its own.           *)
NoAttrs == [ids |-> <<>>]

NoCall == [fn |-> "", arg |-> <<>>]

(* The docname of the one document of a build.                             *)
Index == <<"i", "n", "d", "e", "x">>

(* The docnames of a build of several documents: two of the same basename, *)
(* two of other basenames, one whose basename has no character of a slug.  *)
DocNames ==
    { <<"a", "/", "i", "n", "d", "e", "x">>, <<"b", "/", "i", "n", "d", "e", "x">>,
      <<"t", "w", "o">>, <<"a", "/", "T", "w", "o">>, <<"_">> }

(* The doctrees of such a build.                                           *)
Pages ==
    { <<Node(0, "document")>>,
      <<Node(0, "document"), Node(1, "section"), Node(2, "title"), Text(3, "T")>>,
      <<Node(0, "document"), Node(1, "comment"), Text(2, "T"), Node(1, "paragraph")>>,
      <<Node(0, "document"), Node(1, "paragraph"), Text(2, "T"), Text(2, "T")>>,
      <<Node(0, "document"), Node(1, "paragraph"), Text(2, "T"),
        Node(1, "paragraph"), Text(2, "T")>>,
      <<Node(0, "document"), Node(1, "section"), Node(2, "title"), Text(3, "T"),
        Node(2, "section"), Node(3, "title"), Text(4, "T"), Node(2, "paragraph")>>,
      <<Node(0, "document"), Node(1, "bullet_list"), Node(2, "list_item"),
        Node(3, "paragraph"), Text(4, "T"), Node(2, "list_item"), Node(1, "comment")>> }

Pending == [kind |-> "pending", val |-> <<>>]

(* A build starts: nothing is written, write_doc makes the visitor of its  *)
(* first document.                                                         *)
StartBuild ==
    /\ walk = <<Frame(0, <<1>>, Snapshot(NewVisitor))>>
    /\ pc = "walk"
    /\ raised = NoExc
    /\ visitor = NewVisitor
    /\ rewalked = FALSE
    /\ made = <<>>
    /\ log = <<>>
    /\ first = 0
    /\ heading = 0
    /\ fragment = 0
    /\ docs = <<>>
    /\ files = EmptyMap
    /\ bfw = <<>>
    /\ call = NoCall
    /\ ret = Pending

Start ==
    /\ docname = Index
    /\ StartBuild

Init ==
    /\ Grown("registry", <<Node(0, "document")>>) \/ tree \in TableTrees
    /\ attrs = [n \in 1..Len(tree) |-> NoAttrs]
    /\ Start

InitEngine ==
    /\ Grown("engine", <<Node(0, "document")>>)
    /\ attrs = [n \in 1..Len(tree) |-> NoAttrs]
    /\ Start

(* The ids a docutils node may carry: none, one, two of different length   *)
(* in either order, two of the same length, three.                         *)
IdLists ==
    { <<>>,
      << <<"x">> >>,
      << <<"x">>, <<"A", "b">> >>,
      << <<"A", "b">>, <<"x">> >>,
      << <<"A", "b">>, <<"c", "d">> >>,
      << <<"x">>, <<"E", " ", "f">>, <<"'", "g", "'">> >> }

(* What refid and refuri may be on a reference that has them.              *)
Targets == { <<>>, <<"t", "1">> }

RefTypes == {"reference", "number_reference"}

(* The attributes of a reference: refid and refuri, each missing or set.   *)
RefAttrs ==
    { [k \in {"ids"} \cup DOMAIN t |-> IF k = "ids" THEN <<>> ELSE t[k]] :
        t \in UNION {[K -> Targets] : K \in SUBSET {"refid", "refuri"}} }

(* Every reference has its own refid and refuri.                           *)
InitRefs ==
    /\ Grown("refs", <<Node(0, "document")>>)
    /\ \E a \in [{n \in 1..Len(tree) : tree[n].type \in RefTypes} -> RefAttrs] :
          attrs = [n \in 1..Len(tree) |->
                     IF tree[n].type \in RefTypes THEN a[n] ELSE NoAttrs]
    /\ Start

(* One node of the tree carries ids; every reference has a refuri.         *)
InitInline ==
    /\ Grown("inline", <<Node(0, "document")>>)
    /\ \E k \in {n \in 1..Len(tree) : tree[n].type # "Text"} : \E ids \in IdLists :
          attrs = [n \in 1..Len(tree) |->
                     IF tree[n].type \in RefTypes
                     THEN [ids |-> IF n = k THEN ids ELSE <<>>, refuri |-> <<"u">>]
                     ELSE [ids |-> IF n = k THEN ids ELSE <<>>]]
    /\ Start

InitScopes ==
    /\ Grown("scopes", <<Node(0, "document")>>)
    /\ attrs = [n \in 1..Len(tree) |-> NoAttrs]
    /\ Start

InitParams ==
    /\ Grown("params", <<Node(0, "document")>>)
    /\ attrs = [n \in 1..Len(tree) |-> NoAttrs]
    /\ Start

InitScripts ==
    /\ Grown("scripts", <<Node(0, "document")>>)
    /\ attrs = [n \in 1..Len(tree) |-> NoAttrs]
    /\ Start

InitHeading ==
    /\ Grown("heading", <<Node(0, "document")>>)
    /\ attrs = [n \in 1..Len(tree) |-> NoAttrs]
    /\ Start

InitDeparture ==
    /\ Grown("departure", <<Node(0, "document")>>)
    /\ attrs = [n \in 1..Len(tree) |-> NoAttrs]
    /\ Start

InitBuild ==
    /\ tree \in Pages
    /\ attrs = [n \in 1..Len(tree) |-> NoAttrs]
    /\ docname \in DocNames
    /\ StartBuild

(* walkabout calls dispatch_visit on the next node.  SkipChildren is       *)
(* caught by the node's own walkabout, which goes on to its departure;     *)
(* SkipSiblings leaves the node's walkabout and ends the child loop of the *)
(* parent's; any other exception leaves every walkabout.                   *)
Visited(node, S, h) ==
    /\ visitor' = [S EXCEPT !.exc = NoExc]
    /\ made' = Credit(made, Len(visitor.heap), Len(S.heap), node)
    /\ log' = log
              \o (IF h.obj.handler # ""
                  THEN <<Event("visit", node, "", "")>> ELSE <<>>)
              \o (IF S.exc.kind \in {"", "SkipChildren", "SkipSiblings"}
                  THEN <<Event("enter", node, h.obj.conv, h.instr)>>
                  ELSE <<>>)
    /\ IF S.exc.kind = "" THEN
          /\ walk' = Append([walk EXCEPT ![Len(walk)].rest = Tail(@)],
                            Frame(node, Children(tree, node), Snapshot(visitor)))
          /\ UNCHANGED <<pc, raised>>
       ELSE IF S.exc.kind = "SkipChildren" THEN
          /\ walk' = Append([walk EXCEPT ![Len(walk)].rest = Tail(@)],
                            Frame(node, <<>>, Snapshot(visitor)))
          /\ UNCHANGED <<pc, raised>>
       ELSE IF S.exc.kind = "SkipSiblings" /\ Last(walk).node # 0 THEN
          /\ walk' = [walk EXCEPT ![Len(walk)].rest = <<>>]
          /\ UNCHANGED <<pc, raised>>
       ELSE
          /\ walk' = <<>>
          /\ pc' = "failed"
          /\ raised' = S.exc

Visit ==
    /\ pc = "walk"
    /\ Last(walk).rest # <<>>
    /\ Visited(Head(Last(walk).rest),
               dispatch_visit(visitor, Head(Last(walk).rest)),
               IF tree[Head(Last(walk).rest)].type \in Handlers
               THEN Impl(visitor, Head(Last(walk).rest))
               ELSE Handled(visitor, Obj("", "plain"), "None"))
    /\ UNCHANGED <<docname, tree, rewalked, first, attrs, heading, fragment, docs,
                   files, bfw, call, ret>>

(* The same step of the walk over a doctree the subclass visits.           *)
VisitSubclass ==
    /\ pc = "walk"
    /\ Last(walk).rest # <<>>
    /\ Visited(Head(Last(walk).rest),
               subclass_dispatch_visit(visitor, Head(Last(walk).rest)),
               IF tree[Head(Last(walk).rest)].type \in SubclassHandlers
               THEN SubclassImpl(visitor, Head(Last(walk).rest))
               ELSE Handled(visitor, Obj("", "plain"), "None"))
    /\ UNCHANGED <<docname, tree, rewalked, first, attrs, heading, fragment, docs,
                   files, bfw, call, ret>>

(* The events of a call of dispatch_departure: the call, and the leave     *)
(* segment of the object it found, which is the one of the node that was   *)
(* stored under the key.                                                   *)
Departed(l, S, node) ==
    Append(l, Event("depart", node, "", ""))
    \o (IF visited_key(S, node) # 0 /\ S.stack # <<>>
           /\ S.visited[visited_key(S, node)].conv \in {"ctx", "gen"}
        THEN <<Event("leave", visited_key(S, node),
                     S.visited[visited_key(S, node)].conv, "")>>
        ELSE <<>>)

(* A node's children are done or were skipped: walkabout calls             *)
(* dispatch_departure and returns to the parent's child loop.              *)
Depart ==
    /\ pc = "walk"
    /\ Last(walk).rest = <<>>
    /\ Last(walk).node # 0
    /\ LET node == Last(walk).node
           S == dispatch_departure(visitor, node)
       IN  /\ visitor' = [S EXCEPT !.exc = NoExc]
           /\ made' = Credit(made, Len(visitor.heap), Len(S.heap), node)
           /\ log' = Departed(log, visitor, node)
           /\ IF Ok(S) THEN
                 /\ walk' = Front(walk)
                 /\ UNCHANGED <<pc, raised>>
              ELSE
                 /\ walk' = <<>>
                 /\ pc' = "failed"
                 /\ raised' = S.exc
    /\ UNCHANGED <<docname, tree, rewalked, first, attrs, heading, fragment, docs,
                   files, bfw, call, ret>>

(* What write_doc dumps into content/<slug>.myst.json: slug, location,     *)
(* the title (none: None) and the mdast, the output nodes as they are when *)
(* written.                                                                *)
File(slug, location, heap, result, title) ==
    [slug |-> slug, location |-> <<"/">> \o location,
     title |-> IF title = 0 THEN [none |-> TRUE, text |-> ""]
               ELSE [none |-> FALSE, text |-> to_text(heap, title)],
     heap |-> heap, mdast |-> result]

(* walkabout returns to write_doc, which makes the slug of the docname     *)
(* (title_to_name raises IndexError on a basename without a character of   *)
(* [a-z0-9]), reads visitor.result and takes the first heading             *)
(* find_by_type yields, None (0) if there is none (the walk over None      *)
(* fails on `"children" in this`), and writes the file of the slug.        *)
Return ==
    /\ pc = "walk"
    /\ Len(walk) = 1
    /\ Last(walk).node = 0
    /\ Last(walk).rest = <<>>
    /\ walk' = <<>>
    /\ first' = IF rewalked \/ visitor.result = 0 THEN first
                ELSE Deep(visitor.heap, visitor.result)
    /\ IF _slugify(docname).kind = "raise" THEN
          /\ pc' = "failed"
          /\ raised' = [kind |-> "IndexError", arg |-> "slug"]
          /\ UNCHANGED <<heading, docs, files>>
       ELSE IF visitor.result = 0 THEN
          /\ pc' = "failed"
          /\ raised' = [kind |-> "TypeError", arg |-> "NoneType"]
          /\ UNCHANGED <<heading, docs, files>>
       ELSE
          /\ pc' = "done"
          /\ LET found == find_by_type(visitor.heap, "heading", visitor.result)
             IN  heading' = IF found = <<>> THEN 0 ELSE Head(found)
          /\ files' = Put(files, _slugify(docname).val,
                          File(_slugify(docname).val, docname, visitor.heap,
                               visitor.result, heading'))
          /\ docs' = IF \E i \in DOMAIN docs : docs[i] = docname THEN docs
                     ELSE Append(docs, docname)
          /\ UNCHANGED raised
    /\ UNCHANGED <<docname, tree, visitor, rewalked, made, log, attrs, fragment, bfw,
                   call, ret>>

(* walkabout returns to the write_doc of the package's builder (the one    *)
(* setup registers): the result is dumped as the page's mdast, then the    *)
(* fragment is result["children"][0], after the assertion that the result  *)
(* is a root.  Subscripting None raises TypeError, an empty list           *)
(* IndexError, both after the page was written.  This builder does not     *)
(* read its pages again; the model follows it for one document.            *)
ReturnFragment ==
    /\ pc = "walk"
    /\ docs = <<>>
    /\ Len(walk) = 1
    /\ Last(walk).node = 0
    /\ Last(walk).rest = <<>>
    /\ walk' = <<>>
    /\ first' = IF rewalked \/ visitor.result = 0 THEN first
                ELSE Deep(visitor.heap, visitor.result)
    /\ IF visitor.result = 0 THEN
          /\ pc' = "failed"
          /\ raised' = [kind |-> "TypeError", arg |-> "NoneType"]
          /\ UNCHANGED fragment
       ELSE IF visitor.heap[visitor.result].type # "root" THEN
          /\ pc' = "failed"
          /\ raised' = [kind |-> "AssertionError", arg |-> "root"]
          /\ UNCHANGED fragment
       ELSE IF ~visitor.heap[visitor.result].hasChildren THEN
          /\ pc' = "failed"
          /\ raised' = [kind |-> "KeyError", arg |-> "children"]
          /\ UNCHANGED fragment
       ELSE IF visitor.heap[visitor.result].children = <<>> THEN
          /\ pc' = "failed"
          /\ raised' = [kind |-> "IndexError", arg |-> "fragment"]
          /\ UNCHANGED fragment
       ELSE
          /\ pc' = "written"
          /\ fragment' = visitor.heap[visitor.result].children[1]
          /\ UNCHANGED raised
    /\ UNCHANGED <<docname, tree, visitor, rewalked, made, log, attrs, heading, docs,
                   files, bfw, call, ret>>

(* finish: for every document of the build, in the order they were         *)
(* written, _get_written_target_references loads the file of the           *)
(* document's slug and walks its mdast breadth-first.                      *)
Finish ==
    /\ pc = "done"
    /\ pc' = "finished"
    /\ bfw' = [i \in 1..Len(docs) |->
                 breadth_first_walk(files[_slugify(docs[i]).val].heap,
                                    files[_slugify(docs[i]).val].mdast)]
    /\ UNCHANGED <<docname, tree, walk, raised, visitor, rewalked, made, log, first,
                   attrs, heading, fragment, docs, files, call, ret>>

(* The build goes on: write_doc is called for the next document, with a    *)
(* visitor of its own.                                                     *)
NextDocument ==
    /\ pc = "done"
    /\ Len(docs) < MaxDocs
    /\ docname' \in DocNames \ {docs[i] : i \in DOMAIN docs}
    /\ tree' \in Pages
    /\ attrs' = [n \in 1..Len(tree') |-> NoAttrs]
    /\ walk' = <<Frame(0, <<1>>, Snapshot(NewVisitor))>>
    /\ pc' = "walk"
    /\ visitor' = NewVisitor
    /\ rewalked' = FALSE
    /\ made' = <<>>
    /\ log' = <<>>
    /\ first' = 0
    /\ heading' = 0
    /\ UNCHANGED <<raised, fragment, docs, files, bfw, call, ret>>

(* The same tree walked again with the same visitor instance.              *)
Rewalk ==
    /\ pc = "done"
    /\ ~rewalked
    /\ rewalked' = TRUE
    /\ pc' = "walk"
    /\ walk' = <<Frame(0, <<1>>, Snapshot(visitor))>>
    /\ log' = <<>>
    /\ UNCHANGED <<docname, tree, raised, visitor, made, first, attrs, heading,
                   fragment, docs, files, bfw, call, ret>>

Next == Visit \/ Depart \/ Return \/ ReturnFragment \/ Rewalk \/ Finish

(* The walk of the subclass.                                               *)
NextSubclass ==
    VisitSubclass \/ Depart \/ Return \/ ReturnFragment \/ Rewalk \/ Finish

(* A caller other than the walk of write_doc calls dispatch_departure,     *)
(* once, while the first walk is under way, on a node of the doctree that  *)
(* is no key of _visited; a Text finds the entry of an equal Text that is. *)
(* `call` records the call, `ret` that it returned None or what it raised. *)
DepartUnvisited ==
    /\ pc = "walk"
    /\ ~rewalked
    /\ call.fn = ""
    /\ \E node \in (1..Len(tree)) \ DOMAIN visitor.visited :
          LET S == dispatch_departure(visitor, node)
          IN  /\ call' = [fn |-> "dispatch_departure", arg |-> node]
              /\ visitor' = [S EXCEPT !.exc = NoExc]
              /\ made' = Credit(made, Len(visitor.heap), Len(S.heap), node)
              /\ IF Ok(S) THEN
                    /\ ret' = NoneValue
                    /\ UNCHANGED <<walk, pc, raised>>
                 ELSE
                    /\ ret' = Raised(S.exc.kind)
                    /\ walk' = <<>>
                    /\ pc' = "failed"
                    /\ raised' = S.exc
    /\ log' = Departed(log, visitor, call'.arg)
    /\ UNCHANGED <<docname, tree, rewalked, first, attrs, heading, fragment, docs,
                   files, bfw>>

NextDeparture == Next \/ DepartUnvisited

(* A build of up to MaxDocs documents.                                     *)
NextBuild == Next \/ NextDocument

Spec == Init /\ [][Next]_vars

SpecEngine == InitEngine /\ [][NextSubclass]_vars

SpecRefs == InitRefs /\ [][Next]_vars

SpecInline == InitInline /\ [][Next]_vars

SpecHeading == InitHeading /\ [][Next]_vars

SpecScopes == InitScopes /\ [][Next]_vars

SpecDeparture == InitDeparture /\ [][NextDeparture]_vars

SpecBuild == InitBuild /\ [][NextBuild]_vars

SpecParams == InitParams /\ [][Next]_vars

SpecScripts == InitScripts /\ [][Next]_vars

-----------------------------------------------------------------------------
(* Calls of the functions of utils.py on their own                         *)

Alphabet ==
    {"a", "B", "3", "-", " ", "\t", FormFeed, "'", "\"", LeftQuote, RightDoubleQuote,
     "&", "!"}

RECURSIVE Strings(_)
(* The strings over Alphabet of length n.                                  *)
Strings(n) ==
    IF n = 0 THEN {<<>>}
    ELSE {Append(s, c) : s \in Strings(n - 1), c \in Alphabet}

CoolIdeas == <<"3", " ", "C", "o", "o", "l", " ", "I", "d", "e", "a", "s">>

HelloWorld ==
    <<" ", " ", "H", "e", "l", "l", "o", " ", " ", " ", "W", "o", "r", "l", "d", "!",
      " ", " ">>

ABCafe == <<"A", " ", "&", " ", "B", " ", " ", "C", "a", "f", EAcute>>

LongTitle == Rep(9, <<"a", "&">>)

(* A quote between two spaces.                                              *)
SpacedQuote == <<"a", " ", "'", " ", "b">>

(* White space the regular expression does not name, inside and at the     *)
(* ends, with a run of blanks and a quote.                                 *)
FormFeeds == <<FormFeed, "A", " ", "\t", LeftDoubleQuote, "b", FormFeed, "c", FormFeed>>

(* Capital letters outside ASCII: the I with a dot above, whose lower case  *)
(* is two characters, E with an acute accent and the Kelvin sign, whose    *)
(* lower case is the letter k.                                             *)
Istanbul ==
    <<Uni("0130"), "s", "t", " ", "C", "A", "F", Chr("c9"), " ", Uni("212a")>>

Examples ==
    {CoolIdeas, HelloWorld, ABCafe, LongTitle, SpacedQuote, FormFeeds, Istanbul}

Arguments == Examples \cup UNION {Strings(n) : n \in 0..MaxLen}

InitUtils ==
    /\ docname = Index
    /\ tree = <<Node(0, "document")>>
    /\ attrs = <<NoAttrs>>
    /\ walk = <<>>
    /\ pc = "utils"
    /\ raised = NoExc
    /\ visitor = NewVisitor
    /\ rewalked = FALSE
    /\ made = <<>>
    /\ log = <<>>
    /\ first = 0
    /\ heading = 0
    /\ fragment = 0
    /\ docs = <<>>
    /\ files = EmptyMap
    /\ bfw = <<>>
    /\ call \in {[fn |-> f, arg |-> a] :
                    f \in {"create_html_id", "normalize_label", "title_to_name"},
                    a \in Arguments}
    /\ ret = Pending

Returns(fn, value) ==
    /\ pc = "utils"
    /\ call.fn = fn
    /\ ret.kind = "pending"
    /\ ret' = value
    /\ UNCHANGED <<docname, tree, walk, pc, raised, visitor, rewalked, made, log,
                   first, attrs, heading, fragment, docs, files, bfw, call>>

CallCreateHtmlId == Returns("create_html_id", create_html_id(call.arg))

CallNormalizeLabel == Returns("normalize_label", normalize_label(call.arg))

CallTitleToName == Returns("title_to_name", title_to_name(call.arg))

NextUtils == CallCreateHtmlId \/ CallNormalizeLabel \/ CallTitleToName

SpecUtils == InitUtils /\ [][NextUtils]_vars

-----------------------------------------------------------------------------
(* Vocabulary of the properties                                            *)

Nodes == 1..Len(tree)

Events(ev, n) == {i \in 1..Len(log) : log[i].ev = ev /\ log[i].node = n}

Times(ev, n) == Cardinality(Events(ev, n))

(* The nodes whose handler, in this walk, signalled instr.                 *)
Signalled(instr) ==
    {n \in Nodes : \E i \in Events("enter", n) : log[i].instr = instr}

BelowSkipChildren(n) ==
    \E a \in Signalled("SkipChildren") : n \in Descendants(tree, a)

BelowSkipSiblings(n) ==
    \E a \in Signalled("SkipSiblings") : n \in Descendants(tree, a)

AfterSkipSiblings(n) ==
    \E a \in Signalled("SkipSiblings") :
        \E s \in LaterSiblings(tree, a) : n = s \/ n \in Descendants(tree, s)

RECURSIVE Reach(_, _)
(* The output nodes of the tree below o, o included.                       *)
Reach(heap, o) ==
    {o} \cup UNION { Reach(heap, heap[o].children[i]) : i \in 1..Len(heap[o].children) }

ResultIsOneRoot ==
    /\ visitor.result # 0
    /\ {o \in Reach(visitor.heap, visitor.result) : visitor.heap[o].type = "root"}
         = {visitor.result}

(* write_doc raised after the walk had returned: the fragment of a root    *)
(* without children.                                                       *)
NoFragment == pc = "failed" /\ raised = [kind |-> "IndexError", arg |-> "fragment"]

(* The walk returned to write_doc without an error.                        *)
(* write_doc failed on the slug of the docname, after the walk.            *)
NoSlug == pc = "failed" /\ raised = [kind |-> "IndexError", arg |-> "slug"]

WalkCompleted == pc \in {"done", "finished", "written"} \/ NoFragment \/ NoSlug

(* What finish walked in the file of the document written last.            *)
Yielded ==
    IF \E i \in DOMAIN bfw : docs[i] = docname
    THEN bfw[CHOOSE i \in DOMAIN bfw : docs[i] = docname]
    ELSE <<>>

(* The node types whose handler opens an output node for its subtree:      *)
(* every visit_* method that enters enter_myst_node.                       *)
ScopeTypes ==
    {"container", "comment", "raw", "compact_paragraph", "inline",
     "reference", "number_reference", "topic", "problematic", "math",
     "math_block", "title", "enumerated_list", "subtitle", "bullet_list",
     "rubric", "transition", "list_item", "emphasis", "strong", "literal",
     "literal_emphasis", "literal_strong", "footnote_reference",
     "title_reference", "sidebar", "image", "paragraph", "Text", "section",
     "document", "definition_list", "definition", "term", "table",
     "glossary", "row", "entry", "footnote", "caption", "figure",
     "block_quote", "attribution", "admonition", "versionmodified",
     "productionlist", "compound", "field_list", "field_name", "field_body",
     "desc", "desc_content", "desc_signature", "desc_parameterlist",
     "desc_parameter", "desc_annotation", "desc_addname", "desc_inline",
     "desc_name", "desc_returns", "desc_optional", "desc_sig_element",
     "desc_sig_keyword", "desc_sig_keyword_type", "desc_sig_literal_char",
     "desc_sig_literal_number", "desc_sig_literal_string", "desc_sig_name",
     "desc_signature_line", "desc_sig_operator", "desc_sig_punctuation",
     "desc_sig_space", "desc_type", "desc_type_parameter", "attention",
     "caution", "danger", "error", "hint", "important", "note", "tip",
     "warning", "seealso"}

(* Those and the subclass handler that yields SkipSiblings in its scope.   *)
SubclassScopeTypes == ScopeTypes \cup {"yield_SkipSiblings"}

(* The nearest proper ancestor of input node u whose handler opens a scope. *)
ScopeAncestor(u) ==
    LET A == {a \in 1..(u - 1) :
                u \in Descendants(tree, a) /\ tree[a].type \in SubclassScopeTypes}
    IN  IF A = {} THEN 0 ELSE CHOOSE a \in A : \A b \in A : b <= a

(* The output nodes that list o as a child.                                *)
ParentsOf(o) ==
    {p \in 1..Len(visitor.heap) :
        \E i \in 1..Len(visitor.heap[p].children) : visitor.heap[p].children[i] = o}

(* Output node o hangs, once, under the output of the nearest scope-opening *)
(* ancestor of the input node that made it.                                *)
ProperlyAttached(o) ==
    /\ Cardinality(ParentsOf(o)) = 1
    /\ \A p \in ParentsOf(o) : made[p] = ScopeAncestor(made[o]) \/ made[p] = made[o]

TwoPhase(i) == log[i].conv \in {"ctx", "gen"}

-----------------------------------------------------------------------------
(* C1 as stated: after a walk that completed, the result is one root node  *)
(* and every node's handler was invoked exactly once, except below a node  *)
(* that signalled SkipChildren and at or below the later siblings of a     *)
(* node that signalled SkipSiblings, where it was invoked zero times.      *)
C1_VisitedOnceAsStated ==
    WalkCompleted =>
        /\ ResultIsOneRoot
        /\ \A n \in Nodes :
              Times("visit", n) =
                  IF BelowSkipChildren(n) \/ AfterSkipSiblings(n) THEN 0 ELSE 1

(* C1 amended: the nodes below a node that signalled SkipSiblings are not  *)
(* visited either.                                                         *)
C1_VisitedOnce ==
    WalkCompleted =>
        /\ ResultIsOneRoot
        /\ \A n \in Nodes :
              Times("visit", n) =
                  IF BelowSkipChildren(n) \/ BelowSkipSiblings(n) \/ AfterSkipSiblings(n)
                  THEN 0 ELSE 1

C1_Witness ==
    /\ pc = "done"
    /\ \E a \in Signalled("SkipSiblings") :
          Descendants(tree, a) # {} /\ LaterSiblings(tree, a) # {}
    /\ Signalled("SkipChildren") # {}

(* C2 as stated: a two-phase handler that completed its enter segment has  *)
(* its leave segment run exactly once, after every handler event of the    *)
(* node's descendants and before any later sibling is entered, and the     *)
(* node is then gone from the pending table.                               *)
C2_LeaveRunsOnce ==
    WalkCompleted =>
        \A n \in Nodes : \A i \in Events("enter", n) :
            TwoPhase(i) =>
                /\ Times("leave", n) = 1
                /\ \A j \in Events("leave", n) :
                      /\ i < j
                      /\ \A k \in 1..Len(log) :
                            /\ log[k].node \in Descendants(tree, n) => (i < k /\ k < j)
                            /\ log[k].node \in LaterSiblings(tree, n) => j < k
                /\ n \notin DOMAIN visitor.visited

(* C4 as stated: after a node signalled SkipSiblings, its later siblings   *)
(* and their subtrees are not visited, every ancestor's leave segment      *)
(* closed that ancestor's own output node, and every output node hangs     *)
(* under the output of its input node's nearest scope-opening ancestor.    *)
C4_SkipSiblingsLeavesRestIntact ==
    (WalkCompleted /\ ~rewalked /\ Signalled("SkipSiblings") # {}) =>
        /\ \A n \in Nodes : AfterSkipSiblings(n) => Times("visit", n) = 0
        /\ visitor.result_stack = <<>>
        /\ \A o \in 1..Len(visitor.heap) :
              o # visitor.result => ProperlyAttached(o)

(* C5 as stated: dispatch_departure is performed for a node that signalled *)
(* SkipSiblings: it is popped from the traversal stack, its pending entry  *)
(* is removed, and a two-phase handler's leave segment has run and popped  *)
(* its output node from the output stack.                                  *)
C5_SkipSiblingsNodeDeparts ==
    (WalkCompleted /\ ~rewalked) =>
        \A n \in Signalled("SkipSiblings") :
            /\ Times("depart", n) = 1
            /\ n \notin DOMAIN visitor.visited
            /\ \A i \in 1..Len(visitor.stack) : visitor.stack[i] # n
            /\ \A i \in Events("enter", n) : TwoPhase(i) =>
                  /\ Times("leave", n) = 1
                  /\ \A k \in 1..Len(visitor.result_stack) :
                        made[visitor.result_stack[k]] # n

(* The handlers that signal SkipChildren: visit_comment and visit_rubric   *)
(* yield it, the others return it.                                         *)
SkipChildrenTypes == ReturnSkipChildren \cup {"comment", "literal_block", "rubric"}

OutputsOf(n) == {o \in 1..Len(visitor.heap) : made[o] = n}

OnResultStack(o) ==
    \E k \in 1..Len(visitor.result_stack) : visitor.result_stack[k] = o

(* C3: once a node whose handler signals SkipChildren has been entered, no *)
(* handler is invoked for a descendant and no descendant makes an output   *)
(* node; once the node is left, what it made hangs under its parent scope  *)
(* and is closed, and a two-phase handler's leave segment has run.         *)
C3_SkipChildrenDropsSubtree ==
    \A n \in Nodes :
        (tree[n].type \in SkipChildrenTypes /\ Times("enter", n) = 1) =>
            /\ n \in Signalled("SkipChildren")
            /\ \A d \in Descendants(tree, n) :
                  Times("visit", d) = 0 /\ OutputsOf(d) = {}
            /\ Times("depart", n) = 1 =>
                  /\ \A o \in OutputsOf(n) : ProperlyAttached(o) /\ ~OnResultStack(o)
                  /\ \A i \in Events("enter", n) :
                        TwoPhase(i) => Times("leave", n) = 1

C3_Witness ==
    /\ pc = "done"
    /\ \E n \in Nodes :
          /\ tree[n].type = "comment"
          /\ Descendants(tree, n) # {}
          /\ OutputsOf(n) # {}
    /\ \E n \in Nodes :
          /\ tree[n].type = "literal_block"
          /\ OutputsOf(n) # {}

(* The handlers that open no scope and return nothing.                     *)
PassThroughTypes == ReturnNone

(* The children of p are in the order of the input: the later of two was   *)
(* made by a later node, or by the same node or an enclosing one (when its *)
(* leave segment ran).                                                     *)
InDocumentOrder(p) ==
    LET ch == visitor.heap[p].children
    IN  \A i, j \in 1..Len(ch) :
            i < j => \/ made[ch[i]] <= made[ch[j]]
                     \/ made[ch[i]] \in Descendants(tree, made[ch[j]])

(* C6: a pass-through node makes no output node; what its children make    *)
(* hangs under the output of the pass-through node's nearest scope-opening *)
(* ancestor, and every children list is in input order, so those outputs   *)
(* sit between the outputs of the node's earlier and later siblings.       *)
C6_PassThroughFlattens ==
    WalkCompleted =>
        /\ \A f \in Nodes :
              (tree[f].type \in PassThroughTypes /\ Times("enter", f) = 1) =>
                  /\ OutputsOf(f) = {}
                  /\ \A i \in 1..Len(Children(tree, f)) :
                        \A o \in OutputsOf(Children(tree, f)[i]) :
                            /\ Cardinality(ParentsOf(o)) = 1
                            /\ \A p \in ParentsOf(o) : made[p] = ScopeAncestor(f)
        /\ \A p \in 1..Len(visitor.heap) : InDocumentOrder(p)

C6_Witness ==
    /\ pc = "done"
    /\ \E f \in Nodes :
          /\ tree[f].type = "field"
          /\ Len(Children(tree, f)) >= 2
          /\ \A i \in 1..Len(Children(tree, f)) : OutputsOf(Children(tree, f)[i]) # {}
          /\ \E s \in LaterSiblings(tree, f) : OutputsOf(s) # {}

HeadRows == {r \in Nodes : r # 1 /\ tree[Parent(tree, r)].type = "thead"}

HeadCells == {c \in Nodes : c # 1 /\ Parent(tree, c) \in HeadRows}

(* C7: when every child of every thead is a row, the assertion in          *)
(* visit_thead does not fail, and after the walk exactly the cells of the  *)
(* rows of a thead carry header = true.                                    *)
C7_HeaderCells ==
    (\A r \in HeadRows : tree[r].type = "row") =>
        /\ raised.kind # "AssertionError"
        /\ WalkCompleted =>
              \A o \in 1..Len(visitor.heap) :
                  visitor.heap[o].header <=> made[o] \in HeadCells

C7_Witness ==
    /\ pc = "done"
    /\ Cardinality(HeadRows) = 2
    /\ \E o \in 1..Len(visitor.heap) : visitor.heap[o].header
    /\ \E o \in 1..Len(visitor.heap) : visitor.heap[o].type = "caption"
    /\ \E o, q \in 1..Len(visitor.heap) :
          /\ visitor.heap[o].type = "tableCell" /\ ~visitor.heap[o].header
          /\ visitor.heap[q].type = "tableCell" /\ ~visitor.heap[q].header
          /\ \E h \in HeadCells : made[o] < h /\ h < made[q]

(* C8: on a fresh visitor the result is None until the root's leave        *)
(* segment has run; a walk that an exception ended runs no further step    *)
(* and leaves the result None.                                             *)
C8_ResultOnlyAtTheEnd ==
    /\ (~rewalked /\ Times("leave", 1) = 0) => visitor.result = 0
    /\ (pc = "failed" /\ ~NoFragment /\ ~NoSlug) =>
          /\ raised.kind # ""
          /\ visitor.result = 0
          /\ walk = <<>>
          /\ ~ENABLED Next

C8_Witness ==
    /\ pc = "failed"
    /\ raised.kind = "AssertionError"
    /\ Len(visitor.heap) > 2
    /\ visitor.result = 0

(* C9: a second walk of the same tree with the same visitor instance       *)
(* publishes an output tree equal to the one the first walk published.     *)
C9_RewalkSameTree ==
    (WalkCompleted /\ rewalked) =>
        /\ visitor.result # 0
        /\ Deep(visitor.heap, visitor.result) = first

C9_Witness ==
    /\ pc = "done"
    /\ rewalked
    /\ \E o \in Reach(visitor.heap, visitor.result) :
          visitor.heap[o].type = "heading" /\ visitor.heap[o].depth = 2

UnknownNodes == {n \in Nodes : tree[n].type \notin Handlers}

(* C10: a node whose type has no handler is never recorded in the pending  *)
(* table nor pushed on the traversal stack, no handler runs for it or its  *)
(* descendants, a walk that reached one did not complete, and the error    *)
(* that ended it names the type of the node the walk stopped at.           *)
C10_UnknownTypeAborts ==
    /\ \A n \in UnknownNodes :
          /\ n \notin DOMAIN visitor.visited
          /\ \A i \in 1..Len(visitor.stack) : visitor.stack[i] # n
          /\ Times("visit", n) = 0 /\ Times("enter", n) = 0
          /\ OutputsOf(n) = {}
          /\ \A d \in Descendants(tree, n) : Times("visit", d) = 0
    /\ WalkCompleted => \A n \in UnknownNodes : BelowSkipChildren(n)
    /\ raised.kind = "AttributeError" =>
          /\ pc = "failed"
          /\ \E n \in UnknownNodes :
                /\ raised.arg = tree[n].type
                /\ Times("enter", Parent(tree, n)) = 1
                /\ Times("depart", Parent(tree, n)) = 0
                /\ \A m \in Nodes : m >= n => \A i \in 1..Len(log) : log[i].node # m
                /\ \A m \in 1..(n - 1) :
                      Parent(tree, m) = Parent(tree, n) => Times("depart", m) = 1

C10_Witness ==
    /\ pc = "failed"
    /\ raised = [kind |-> "AttributeError", arg |-> "pending"]
    /\ \E n, m \in UnknownNodes :
          tree[n].type = "system_message" /\ tree[m].type = "pending"

-----------------------------------------------------------------------------
(* A reference with neither refid nor refuri.                              *)
Malformed(n) ==
    tree[n].type \in RefTypes /\ get(n, "refid") = <<>> /\ get(n, "refuri") = <<>>

(* C11: a reference or number_reference with neither refid nor refuri      *)
(* makes no output node and is never recorded; the walk that reaches it    *)
(* ends there with an error and no walk over it completes.  A reference    *)
(* with a refid makes a link whose url is "#" and the refid; one with only *)
(* a refuri makes a link whose url is the refuri.                          *)
C11_References ==
    /\ \A n \in Nodes :
          tree[n].type \in RefTypes =>
              IF Malformed(n) THEN
                  /\ OutputsOf(n) = {}
                  /\ Times("enter", n) = 0
                  /\ n \notin DOMAIN visitor.visited
                  /\ Times("visit", n) > 0 => pc = "failed" /\ raised.kind = "RuntimeError"
              ELSE
                  /\ Times("enter", n) > 0 => OutputsOf(n) # {}
                  /\ \A o \in OutputsOf(n) :
                        /\ visitor.heap[o].type = "link"
                        /\ visitor.heap[o].url =
                              IF get(n, "refid") # <<>> THEN <<"#">> \o attrs[n].refid
                              ELSE attrs[n].refuri
    /\ WalkCompleted => \A n \in Nodes : ~Malformed(n)

C11_Witness ==
    /\ pc = "failed"
    /\ raised.kind = "RuntimeError"
    /\ \E n, m \in Nodes :
          /\ tree[n].type = "reference" /\ get(n, "refid") # <<>>
          /\ tree[m].type = "number_reference" /\ get(m, "refid") = <<>>
          /\ \E o \in OutputsOf(n) : visitor.heap[o].url = <<"#", "t", "1">>
          /\ \E o \in OutputsOf(m) : visitor.heap[o].url = <<"t", "1">>

(* C12: a title never ends the walk, whatever the type of its parent: once *)
(* its handler was invoked the title was entered or elided and the walk    *)
(* went on, and no walk ends with the error that names a parent type.      *)
C12_UnmappedTitleRecoverable ==
    /\ \A n \in Nodes :
          tree[n].type = "title" /\ Times("visit", n) > 0 => Times("enter", n) > 0
    /\ raised.kind # "NotImplementedError"

(* What an output node made for input node n has to carry.                  *)
InheritedFrom(n, o) ==
    LET longest == longest_id(attrs[n].ids)
    IN  /\ visitor.heap[o].labelled
        /\ visitor.heap[o].label = longest
        /\ visitor.heap[o].identifier = normalize_identifier(longest)

(* C13: an input node that carries ids and for which output was made has   *)
(* an output node whose label is the longest of the ids (the first of the  *)
(* longest) and whose identifier is its normalized form; for a node that   *)
(* carries several ids output is made all the same; the output of a node   *)
(* without ids has neither field.                                          *)
C13_LabelsInherited ==
    \A n \in Nodes :
        /\ OutputsOf(n) # {} =>
              IF attrs[n].ids = <<>>
              THEN \A o \in OutputsOf(n) : ~visitor.heap[o].labelled
              ELSE \E o \in OutputsOf(n) : InheritedFrom(n, o)
        /\ Len(attrs[n].ids) > 1 /\ Times("visit", n) > 0 => OutputsOf(n) # {}

(* The section and subtitle nodes the walk is inside of.                    *)
OpenHeadingScopes ==
    {i \in 1..Len(walk) :
        walk[i].node # 0 /\ tree[walk[i].node].type \in {"section", "subtitle"}}

SectionsEnclosing(n) ==
    {a \in Nodes : tree[a].type = "section" /\ n \in Descendants(tree, a)}

(* C14: during a walk the heading-depth counter equals the number of open  *)
(* section and subtitle nodes, and it is zero again when the walk is       *)
(* complete; the heading made for a title under a section has as depth the *)
(* number of sections enclosing the title, at least 1; the heading made    *)
(* for a subtitle has that number plus one.                                *)
C14_HeadingDepth ==
    /\ pc = "walk" => visitor.heading_depth = Cardinality(OpenHeadingScopes)
    /\ WalkCompleted => visitor.heading_depth = 0
    /\ \A n \in Nodes : \A o \in OutputsOf(n) :
          /\ (tree[n].type = "title" /\ tree[Parent(tree, n)].type = "section") =>
                /\ visitor.heap[o].type = "heading"
                /\ visitor.heap[o].depth = Cardinality(SectionsEnclosing(n))
                /\ visitor.heap[o].depth >= 1
          /\ tree[n].type = "subtitle" =>
                /\ visitor.heap[o].type = "heading"
                /\ visitor.heap[o].depth = Cardinality(SectionsEnclosing(n)) + 1

C14_Witness ==
    /\ pc = "done"
    /\ \E t, s \in Nodes :
          /\ tree[t].type = "title" /\ tree[s].type = "subtitle"
          /\ Parent(tree, t) = Parent(tree, s)
          /\ Cardinality(SectionsEnclosing(t)) = 2
          /\ \E o \in OutputsOf(t) : visitor.heap[o].depth = 2
          /\ \E o \in OutputsOf(s) : visitor.heap[o].depth = 3

(* The call of fn has returned or raised.                                   *)
Called(fn) == pc = "utils" /\ call.fn = fn /\ ret.kind # "pending"

IdCoolIdeas ==
    <<"i", "d", "-", "3", "-", "c", "o", "o", "l", "-", "i", "d", "e", "a", "s">>

(* C15: create_html_id returns None exactly for the empty string; every    *)
(* other result is a non-empty string over [a-z0-9-] that starts with a    *)
(* letter, and "3 Cool Ideas" gives "id-3-cool-ideas".                     *)
C15_CreateHtmlId ==
    Called("create_html_id") =>
        /\ ret.kind = "None" <=> call.arg = <<>>
        /\ call.arg # <<>> =>
              /\ ret.kind = "value"
              /\ ret.val # <<>>
              /\ Head(ret.val) \in Letters
              /\ \A i \in DOMAIN ret.val : ret.val[i] \in IdChars
        /\ call.arg = CoolIdeas => ret.val = IdCoolIdeas

RECURSIVE Without(_, _)
(* s without its characters of C.                                           *)
Without(s, C) ==
    IF s = <<>> THEN <<>>
    ELSE (IF Head(s) \in C THEN <<>> ELSE <<Head(s)>>) \o Without(Tail(s), C)

UpperCaseLetters == {UpperCase[i] : i \in DOMAIN UpperCase}

(* s with every maximal run of characters of C made one space: of a run    *)
(* only its first character stays, as a space.                             *)
Collapsed(s, C) ==
    LET kept == SortedSeq({i \in DOMAIN s : s[i] \notin C \/ i = 1 \/ s[i - 1] \notin C})
    IN  [j \in DOMAIN kept |-> IF s[kept[j]] \in C THEN " " ELSE s[kept[j]]]

(* s from its first to its last character outside C.                       *)
Trimmed(s, C) ==
    LET inner == {i \in DOMAIN s : s[i] \notin C}
    IN  IF inner = {} THEN <<>>
        ELSE SubSeq(s, CHOOSE i \in inner : \A k \in inner : i <= k,
                       CHOOSE i \in inner : \A k \in inner : k <= i)

(* The identifier of a label when the runs of the characters of C are      *)
(* collapsed to single spaces, the quote characters removed, the           *)
(* surrounding white space trimmed and the letters lower-cased.            *)
IdentifierOf(label, C) ==
    lower(Trimmed(Without(Collapsed(label, C), Quotes), Whitespace))

(* What the claim says of the call apart from the identifier: None exactly *)
(* for the empty string, else a triple with the label unchanged and the    *)
(* html id of the identifier; the example of the claim.                    *)
LabelTriple ==
    /\ ret.kind = "None" <=> call.arg = <<>>
    /\ call.arg # <<>> =>
          /\ ret.kind = "value"
          /\ ret.val.label = call.arg
          /\ ret.val.html_id = create_html_id(ret.val.identifier)
    /\ call.arg = HelloWorld =>
          /\ ret.val.identifier
                = <<"h", "e", "l", "l", "o", " ", "w", "o", "r", "l", "d", "!">>
          /\ ret.val.label = HelloWorld
          /\ ret.val.html_id
                = Value(<<"h", "e", "l", "l", "o", "-", "w", "o", "r", "l", "d">>)

(* C16, as amended: normalize_label returns None exactly for the empty     *)
(* string and otherwise a triple whose label is the input unchanged, whose *)
(* html id is create_html_id of the identifier, and whose identifier is the *)
(* input with the runs of tab, newline, carriage return and space          *)
(* collapsed to single spaces, the quote characters removed, the           *)
(* surrounding white space of any kind trimmed, and lower-cased: it has no *)
(* quote, no upper-case letter, no tab, newline or carriage return, no     *)
(* white space at either end, and keeps the other characters of the input  *)
(* in order; "  Hello   World!  " gives "hello world!", itself and         *)
(* "hello-world".                                                          *)
C16_NormalizeLabel ==
    Called("normalize_label") =>
        /\ LabelTriple
        /\ call.arg # <<>> =>
              /\ ret.val.identifier = IdentifierOf(call.arg, Blanks)
              /\ \A i \in DOMAIN ret.val.identifier :
                    ret.val.identifier[i] \notin
                        Quotes \cup UpperCaseLetters \cup (Blanks \ {" "})
              /\ ret.val.identifier # <<>> =>
                    /\ Head(ret.val.identifier) \notin Whitespace
                    /\ Last(ret.val.identifier) \notin Whitespace
              /\ Without(ret.val.identifier, Whitespace)
                    = lower(Without(call.arg, Whitespace \cup Quotes))

(* C16 as stated: the runs collapsed to single spaces are the runs of      *)
(* white space of any kind, so that the identifier has no white space      *)
(* other than the space.                                                   *)
C16_NormalizeLabelAsStated ==
    Called("normalize_label") =>
        /\ LabelTriple
        /\ call.arg # <<>> =>
              /\ ret.val.identifier = IdentifierOf(call.arg, Whitespace)
              /\ \A i \in DOMAIN ret.val.identifier :
                    ret.val.identifier[i] \notin
                        Quotes \cup UpperCaseLetters \cup (Whitespace \ {" "})

(* A label with white space of both kinds: the blanks inside are one       *)
(* space, the form feed inside stays, the form feeds at the ends go.       *)
C16_Witness ==
    /\ Called("normalize_label")
    /\ call.arg = FormFeeds
    /\ ret = Value([identifier |-> <<"a", " ", "b", FormFeed, "c">>,
                    label |-> FormFeeds,
                    html_id |-> Value(<<"a", "-", "b", "-", "c">>)])

RECURSIVE Contains(_, _)
(* sub occurs in s.                                                         *)
Contains(s, sub) ==
    IF Len(s) < Len(sub) THEN FALSE
    ELSE SubSeq(s, 1, Len(sub)) = sub \/ Contains(Tail(s), sub)

(* C17: title_to_name returns a slug for every title: a string of at most  *)
(* 50 characters over [a-z0-9-] with no two adjacent '-' and no leading    *)
(* '-'; the slug of "A & B  Café" contains "a-and-b".                      *)
C17_TitleToName ==
    Called("title_to_name") =>
        /\ ret.kind = "value"
        /\ Len(ret.val) <= SlugLimit
        /\ \A i \in DOMAIN ret.val : ret.val[i] \in IdChars
        /\ \A i \in 1..(Len(ret.val) - 1) : ~(ret.val[i] = "-" /\ ret.val[i + 1] = "-")
        /\ ret.val # <<>> => Head(ret.val) # "-"
        /\ call.arg = ABCafe => Contains(ret.val, <<"a", "-", "a", "n", "d", "-", "b">>)

RECURSIVE OutDepth(_)
(* Depth of output node o below the result.                                 *)
OutDepth(o) ==
    IF o = visitor.result \/ ParentsOf(o) = {} THEN 0
    ELSE 1 + OutDepth(CHOOSE p \in ParentsOf(o) : TRUE)

(* Where output node o stands in the sequence s (0: nowhere).               *)
Position(s, o) ==
    IF \E i \in DOMAIN s : s[i] = o THEN CHOOSE i \in DOMAIN s : s[i] = o ELSE 0

(* The file finish opens for the i-th document of the build.               *)
Written(i) == files[_slugify(docs[i]).val]

(* The nodes of heap that list o as a child.                               *)
ParentsIn(heap, o) ==
    {p \in 1..Len(heap) : \E i \in 1..Len(heap[p].children) : heap[p].children[i] = o}

RECURSIVE DepthIn(_, _, _)
(* Depth of node o below root.                                             *)
DepthIn(heap, root, o) ==
    IF o = root \/ ParentsIn(heap, o) = {} THEN 0
    ELSE 1 + DepthIn(heap, root, CHOOSE p \in ParentsIn(heap, o) : TRUE)

(* s lists nodes of the tree below root level by level, each level from    *)
(* left to right.                                                          *)
LevelOrder(heap, root, s) ==
    \A i, j \in DOMAIN s :
        i < j =>
            /\ DepthIn(heap, root, s[i]) <= DepthIn(heap, root, s[j])
            /\ (DepthIn(heap, root, s[i]) = DepthIn(heap, root, s[j])
                    /\ DepthIn(heap, root, s[i]) > 0) =>
                  LET p == CHOOSE q \in ParentsIn(heap, s[i]) : TRUE
                      r == CHOOSE q \in ParentsIn(heap, s[j]) : TRUE
                      at(o, q) == CHOOSE k \in DOMAIN heap[q].children : heap[q].children[k] = o
                  IN  \/ Position(s, p) < Position(s, r)
                      \/ p = r /\ at(s[i], p) < at(s[j], p)

(* C18: the breadth-first walk finish makes over the tree of each written   *)
(* file has yielded every node of that tree exactly once, the root first,  *)
(* every node of one depth before any deeper node and nodes of the same    *)
(* depth from left to right; nodes without a children field are among      *)
(* them.  The file of the document written last holds the result of its    *)
(* visitor.                                                                *)
C18_BreadthFirstWalk ==
    pc = "finished" =>
        /\ files[_slugify(docname).val].heap = visitor.heap
        /\ files[_slugify(docname).val].mdast = visitor.result
        /\ \A d \in DOMAIN docs :
              LET f == Written(d)
                  y == bfw[d]
              IN  /\ y # <<>> /\ y[1] = f.mdast
                  /\ {y[i] : i \in DOMAIN y} = Reach(f.heap, f.mdast)
                  /\ \A i, j \in DOMAIN y : y[i] = y[j] => i = j
                  /\ LevelOrder(f.heap, f.mdast, y)

(* A walk whose order differs from the order the nodes were made in, with  *)
(* a leaf that has no children field, over a file two documents of the     *)
(* build were written to.                                                  *)
C18_Witness ==
    /\ pc = "finished"
    /\ Len(docs) = 2
    /\ _slugify(docs[1]) = _slugify(docs[2])
    /\ \E i, j \in DOMAIN Yielded : i < j /\ Yielded[i] > Yielded[j]
    /\ \E i \in DOMAIN Yielded : ~visitor.heap[Yielded[i]].hasChildren

(* The heading nodes of the result tree.                                    *)
Headings ==
    {o \in Reach(visitor.heap, visitor.result) : visitor.heap[o].type = "heading"}

(* C19: find_by_type("heading", result) yields the headings of the result  *)
(* tree and nothing else, each once, in the order of the breadth-first     *)
(* walk; the heading write_doc took is None exactly when the tree has no   *)
(* heading, and otherwise a heading no other heading is shallower than or  *)
(* at the same depth to the left of.                                       *)
C19_FindByType ==
    pc = "finished" =>
        LET found == find_by_type(visitor.heap, "heading", visitor.result)
        IN  /\ {found[i] : i \in DOMAIN found} = Headings
            /\ \A i, j \in DOMAIN found :
                  /\ found[i] = found[j] => i = j
                  /\ i < j => Position(Yielded, found[i]) < Position(Yielded, found[j])
            /\ heading = 0 <=> Headings = {}
            /\ heading # 0 =>
                  /\ heading \in Headings
                  /\ \A h \in Headings \ {heading} :
                        /\ OutDepth(heading) <= OutDepth(h)
                        /\ Position(Yielded, heading) < Position(Yielded, h)

(* The heading taken is not the first one made: a deeper heading comes     *)
(* earlier in the document.                                                *)
C19_Witness ==
    /\ pc = "finished"
    /\ heading # 0
    /\ \E h \in Headings : h < heading /\ OutDepth(h) > OutDepth(heading)
    /\ \E h \in Headings : h # heading /\ OutDepth(h) = OutDepth(heading)

(* The input nodes the walk is inside of: visited and not yet left.         *)
OpenNodes == {walk[i].node : i \in 1..Len(walk)} \ {0}

(* How many output nodes the handler of a node of type ty opens for the    *)
(* node's subtree.                                                         *)
ScopesOpened(ty) ==
    IF ty \in {"literal_emphasis", "literal_strong", "rubric"} THEN 2
    ELSE IF ty \in SubclassScopeTypes THEN 1
    ELSE 0

RECURSIVE SumScopes(_)
SumScopes(N) ==
    IF N = {} THEN 0
    ELSE LET n == CHOOSE n \in N : TRUE
         IN  ScopesOpened(tree[n].type) + SumScopes(N \ {n})

(* C20 as stated: during a walk the depth of the output-node stack is the  *)
(* number of open input nodes whose handler opened an output node.         *)
C20_StackDepthAsStated ==
    pc = "walk" =>
        Len(visitor.result_stack)
            = Cardinality({n \in OpenNodes : ScopesOpened(tree[n].type) > 0})

(* C20: during a walk the depth of the output-node stack is the number of  *)
(* output nodes the handlers of the open input nodes opened (two for       *)
(* literal_emphasis, literal_strong and rubric, none for pass-through      *)
(* handlers and handlers that only return a signal), every node on the     *)
(* stack was made by an open input node, and after the walk the stack is   *)
(* empty.                                                                  *)
C20_StackDepth ==
    /\ pc = "walk" =>
          /\ Len(visitor.result_stack) = SumScopes(OpenNodes)
          /\ \A i \in 1..Len(visitor.result_stack) :
                made[visitor.result_stack[i]] \in OpenNodes
    /\ WalkCompleted => visitor.result_stack = <<>>

(* Inside a pass-through field and a doubly wrapped inline node.           *)
C20_Witness ==
    /\ pc = "walk"
    /\ \E f, e \in OpenNodes : tree[f].type = "field" /\ tree[e].type = "literal_emphasis"
    /\ Cardinality(OpenNodes) = 4
    /\ Len(visitor.result_stack) = 4
    /\ \E c \in Nodes : tree[c].type = "colspec" /\ Times("depart", c) = 1

(* The titles without a character of [a-z0-9] once lower-cased and with    *)
(* '&' spelled out: "", "-", "!!!" are among them.                         *)
Unsluggable(title) ==
    \A i \in DOMAIN lower(title) :
        lower(title)[i] \notin (Letters \cup Digits \cup {"&"})

(* C25: title_to_name is total: it returns a string and raises nothing on  *)
(* every title, and the empty string on a title without a character of     *)
(* [a-z0-9], such as "", "-" or "!!!".                                     *)
C25_TitleToNameTotal ==
    Called("title_to_name") =>
        /\ ret.kind # "raise"
        /\ Unsluggable(call.arg) => ret = Value(<<>>)

(* C24: the identifier normalize_label returns is canonical and a fixed    *)
(* point: when it is not empty, normalize_label of it returns it again as  *)
(* the identifier, and it has no two adjacent whitespace characters, no    *)
(* quote, no upper-case letter and no whitespace at either end.            *)
C24_IdentifierCanonical ==
    (Called("normalize_label") /\ ret.kind = "value" /\ ret.val.identifier # <<>>) =>
        /\ normalize_label(ret.val.identifier).val.identifier = ret.val.identifier
        /\ \A i \in 1..(Len(ret.val.identifier) - 1) :
              ~(ret.val.identifier[i] \in Blanks /\ ret.val.identifier[i + 1] \in Blanks)
        /\ \A i \in DOMAIN ret.val.identifier :
              ret.val.identifier[i] \notin Quotes \cup UpperCaseLetters
        /\ Head(ret.val.identifier) \notin Blanks
        /\ Last(ret.val.identifier) \notin Blanks

(* C21: dispatch_departure on a node that finds no entry in _visited is a  *)
(* no-op: it returns None, raises nothing, runs no leave segment, and the  *)
(* node stack, the result stack, the heading depth, the pending entries,   *)
(* the result and the output nodes are what they were; the walk goes on    *)
(* from where it stood.                                                    *)
C21_DepartureMiss ==
    [][(/\ call.fn = "" /\ call'.fn = "dispatch_departure"
        /\ visited_key(visitor, call'.arg) = 0) =>
          /\ ret' = NoneValue
          /\ visitor'.stack = visitor.stack
          /\ visitor'.result_stack = visitor.result_stack
          /\ visitor'.heading_depth = visitor.heading_depth
          /\ visitor'.heap = visitor.heap
          /\ visitor'.visited = visitor.visited
          /\ visitor'.result = visitor.result
          /\ log' = Append(log, Event("depart", call'.arg, "", ""))
          /\ walk' = walk /\ pc' = pc /\ raised' = raised]_vars

(* The miss happened inside a section, on a node that was entered and left *)
(* before, and the walk completed afterwards.                              *)
C21_Witness ==
    /\ pc = "done"
    /\ call.fn = "dispatch_departure"
    /\ ret = NoneValue
    /\ Times("enter", call.arg) = 1
    /\ Times("depart", call.arg) = 2
    /\ Times("leave", call.arg) = 1
    /\ \E i, j \in 1..Len(log) :
          /\ i < j /\ j < Len(log)
          /\ log[i].ev = "leave" /\ log[i].node = call.arg
          /\ log[j].ev = "depart" /\ log[j].node = call.arg
          /\ \E s \in Nodes : /\ tree[s].type = "section"
                              /\ Events("enter", s) # {} /\ \A e \in Events("enter", s) : e < j
                              /\ \A l \in Events("leave", s) : l > j

(* A node's departure returned to the parent's child loop: the stacks and  *)
(* the heading depth are what they were right before the node was entered. *)
LeaveRestores ==
    (pc = "walk" /\ pc' = "walk" /\ Len(walk') = Len(walk) - 1) =>
        Snapshot(visitor') = Last(walk).saved

(* While the children of a node are visited, the node is parent_node.      *)
ChildrenSeeTheirParent ==
    (pc = "walk" /\ Last(walk).node # 0 /\ Last(walk).rest # <<>>) =>
        parent_node(visitor) = Last(walk).node

(* After a walk that completed nothing is left open.                        *)
NothingLeftOpen ==
    WalkCompleted =>
        /\ visitor.stack = <<>>
        /\ visitor.result_stack = <<>>
        /\ DOMAIN visitor.visited = {}
        /\ visitor.heading_depth = 0

(* C22: stack balance: right after the leave of a node that was entered,   *)
(* the node stack, the result stack and the heading depth have the values  *)
(* they had right before its enter; while the node's children are visited  *)
(* the top of the node stack is that node; after a walk that completes the *)
(* two stacks and the pending table are empty and the heading depth is 0.  *)
C22_StackBalance ==
    /\ [][LeaveRestores]_vars
    /\ [](ChildrenSeeTheirParent /\ NothingLeftOpen)

(* The span the handler of the parameter list n opened in this walk.       *)
SpanOf(n) ==
    CHOOSE o \in OutputsOf(n) :
        /\ visitor.heap[o].type = "span"
        /\ \A q \in OutputsOf(n) : visitor.heap[q].type = "span" => q <= o

(* Output node o of heap is the text node {"type": "text", "value": v}.    *)
IsText(heap, o, v) ==
    /\ o \in DOMAIN heap
    /\ heap[o].type = "text"
    /\ heap[o].value = v
    /\ ~heap[o].hasChildren

(* The children `after` are the k children `before` in parentheses, with a *)
(* comma between each two neighbours.                                      *)
InParentheses(heap, before, after) ==
    LET k == Len(before)
    IN  /\ Len(after) = IF k = 0 THEN 2 ELSE 2 * k + 1
        /\ IsText(heap, after[1], "(")
        /\ IsText(heap, after[Len(after)], ")")
        /\ \A i \in 1..k : after[2 * i] = before[i]
        /\ \A i \in 1..(k - 1) : IsText(heap, after[2 * i + 1], ", ")

(* The departure of a parameter list n whose span holds the children       *)
(* p1..pk: afterwards the span holds "(", p1, ", ", ..., pk, ")", the pi   *)
(* are untouched, and the span is the one its parent holds.                *)
ParameterListLeft(n) ==
    LET span == SpanOf(n)
        before == visitor.heap[span].children
    IN  /\ InParentheses(visitor'.heap, before, visitor'.heap[span].children)
        /\ \A i \in 1..Len(before) : visitor'.heap[before[i]] = visitor.heap[before[i]]
        /\ visitor'.result_stack = Front(visitor.result_stack)
        /\ Last(visitor.result_stack) = span
        /\ \A p \in DOMAIN visitor'.heap :
              (\E c \in DOMAIN visitor'.heap[p].children :
                    visitor'.heap[p].children[c] = span)
                 <=> (visitor'.result_stack # <<>> /\ p = Last(visitor'.result_stack))

(* C23: when a desc_parameterlist whose subtree produced the output        *)
(* children p1..pk is left, its span gets the children "(", ")" for k = 0  *)
(* and "(", p1, ", ", p2, ..., ", ", pk, ")" (2k+1 nodes, the pi in their  *)
(* order, no comma after pk) for k >= 1, and the span attached to the      *)
(* parent is the node that carries them.                                   *)
C23_ParameterList ==
    [][(/\ pc = "walk" /\ pc' = "walk"
        /\ Len(walk') = Len(walk) - 1
        /\ tree[Last(walk).node].type = "desc_parameterlist")
          => ParameterListLeft(Last(walk).node)]_vars

(* A completed walk whose result holds a span of three parameters in       *)
(* parentheses, separated by two commas.                                   *)
C23_Witness ==
    /\ pc = "done"
    /\ \E o \in Reach(visitor.heap, visitor.result) :
          /\ visitor.heap[o].type = "span"
          /\ Len(visitor.heap[o].children) = 7
          /\ \A i \in 1..3 : visitor.heap[visitor.heap[o].children[2 * i]].type = "emphasis"
          /\ IsText(visitor.heap, visitor.heap[o].children[1], "(")
          /\ IsText(visitor.heap, visitor.heap[o].children[3], ", ")
          /\ IsText(visitor.heap, visitor.heap[o].children[5], ", ")
          /\ IsText(visitor.heap, visitor.heap[o].children[7], ")")

ScriptNodes == {n \in Nodes : tree[n].type \in {"subscript", "superscript"}}

OpeningMarker(n) == IF tree[n].type = "subscript" THEN "<sub>" ELSE "<sup>"

ClosingMarker(n) == IF tree[n].type = "subscript" THEN "</sub>" ELSE "</sup>"

(* The html nodes with value v that the handler of n appended.             *)
Markers(n, v) ==
    {o \in OutputsOf(n) : visitor.heap[o].type = "html" /\ visitor.heap[o].value = v}

(* The subtree of n is being processed and o is the marker that opened it. *)
StillOpen(n, o) ==
    /\ n \in OpenNodes
    /\ \A q \in Markers(n, OpeningMarker(n)) : q <= o

(* The output nodes the subtree of n produced after its marker o and, when *)
(* c # 0, before its marker c.                                             *)
ProducedBetween(n, o, c) ==
    {q \in 1..Len(visitor.heap) :
        /\ made[q] \in Descendants(tree, n)
        /\ o < q
        /\ c # 0 => q < c}

(* The children of p that follow o and, when c # 0, precede c.             *)
ChildrenBetween(p, o, c) ==
    LET kids == visitor.heap[p].children
    IN  {kids[i] : i \in {j \in DOMAIN kids :
                            /\ Position(kids, o) < j
                            /\ c # 0 => j < Position(kids, c)}}

(* Marker o of n hangs under p, opens nothing, and what the subtree of n   *)
(* produced up to the closing marker c (so far, when c = 0) is what hangs  *)
(* under p behind o, with what lies below it.                              *)
Bracketed(n, p, o, c) ==
    /\ ~visitor.heap[o].hasChildren
    /\ ~OnResultStack(o)
    /\ ChildrenBetween(p, o, c) \subseteq ProducedBetween(n, o, c)
    /\ ProducedBetween(n, o, c)
          = UNION {Reach(visitor.heap, q) : q \in ChildrenBetween(p, o, c)}
    /\ c # 0 =>
          /\ ParentsOf(c) = {p}
          /\ Position(visitor.heap[p].children, o) < Position(visitor.heap[p].children, c)
          /\ \A q \in Markers(n, OpeningMarker(n)) : q > o => q > c

(* The first closing marker of n behind o, 0 if there is none.             *)
CloserOf(n, o) ==
    LET later == {c \in Markers(n, ClosingMarker(n)) : c > o}
    IN  IF later = {} THEN 0 ELSE CHOOSE c \in later : \A d \in later : c <= d

(* C26: the handler of a subscript (superscript) opens no scope: it        *)
(* appends an html node "<sub>" ("<sup>") to the open output node before   *)
(* anything the node's subtree produces, what the subtree produces is      *)
(* appended behind it under that same node (directly, or below a node that *)
(* is), and "</sub>" ("</sup>") is appended to the same node behind all of *)
(* it and before anything a later sibling produces; every opening marker   *)
(* gets its closing marker, and pairs are properly nested.                 *)
C26_ScriptMarkers ==
    \A n \in ScriptNodes :
        /\ Times("enter", n) > 0 => Markers(n, OpeningMarker(n)) # {}
        /\ \A c \in Markers(n, ClosingMarker(n)) :
              \E o \in Markers(n, OpeningMarker(n)) : CloserOf(n, o) = c
        /\ \A o \in Markers(n, OpeningMarker(n)) :
              /\ Cardinality(ParentsOf(o)) = 1
              /\ \A p \in ParentsOf(o) :
                    IF StillOpen(n, o)
                    THEN /\ CloserOf(n, o) = 0
                         /\ Bracketed(n, p, o, 0)
                         /\ parent_result(visitor) \in {p} \cup ProducedBetween(n, o, 0)
                    ELSE /\ CloserOf(n, o) # 0
                         /\ Bracketed(n, p, o, CloserOf(n, o))

(* A completed walk of a paragraph with a superscript around a subscript   *)
(* and a later sibling without a value: the paragraph holds <sup>, <sub>,  *)
(* </sub>, </sup> and the sibling's output node.                           *)
C26_Witness ==
    /\ pc = "done"
    /\ ~rewalked
    /\ \E n, m \in ScriptNodes :
          /\ tree[n].type = "superscript" /\ tree[m].type = "subscript"
          /\ Parent(tree, m) = n
          /\ \E p \in Reach(visitor.heap, visitor.result) :
                /\ visitor.heap[p].type = "paragraph"
                /\ Len(visitor.heap[p].children) = 5
                /\ [i \in 1..5 |-> visitor.heap[visitor.heap[p].children[i]].value]
                      = <<"<sup>", "<sub>", "</sub>", "</sup>", "">>
                /\ visitor.heap[p].children[1] \in OutputsOf(n)
                /\ visitor.heap[p].children[2] \in OutputsOf(m)

====
